---- MODULE Spec2Model ----
(***************************************************************************)
(* Agent Genesis: the indexing orchestrator (daemon/indexer.py), the       *)
(* dual-collection store (daemon/knowledge_db_dual.py), the record         *)
(* decoders and the vector worker's request handlers                       *)
(* (daemon/chroma_worker.py), as a state machine.                          *)
(*                                                                         *)
(* Text is a sequence of one-character strings.  Python's None, where a    *)
(* text is expected, is the one-element sequence None, which no text       *)
(* equals because its element is not a single character.                   *)
(***************************************************************************)
EXTENDS Integers, Sequences, FiniteSets, TLC

\* ------------------------------------------------------------------ bounds
MaxMtime == 2      \* modification stamps of source files range over 1..MaxMtime
MaxUuid == 3       \* uuid4() draws available to one run of the model
MaxExports == 2    \* export archives that appear in the exports directory
MaxPid == 2        \* worker processes started over one run
MaxNow == 1        \* the clock reads 1..MaxNow
MaxLines == 2      \* lines one worker process reads from stdin

\* ------------------------------------------------------- program constants
IdPrefixLen == 200 \* content[:200] in the worker's document id
\* debounce_seconds, 2.0, in sleeps of the main loop, 0.5 each
DebounceTicks == 4

\* -------------------------------------------------------------------- text
None == <<"<None>">>

Whitespace == {" ", "\t", "\n"}

Rep(c, n) == [i \in 1..n |-> c]

Take(s, n) == SubSeq(s, 1, IF Len(s) < n THEN Len(s) ELSE n)

RECURSIVE LStrip(_)
LStrip(s) ==
  IF s # <<>> /\ Head(s) \in Whitespace THEN LStrip(Tail(s)) ELSE s

RECURSIVE RStrip(_)
RStrip(s) ==
  IF s # <<>> /\ s[Len(s)] \in Whitespace THEN RStrip(SubSeq(s, 1, Len(s) - 1)) ELSE s

\* str.strip()
Strip(s) == RStrip(LStrip(s))

\* Python truthiness of an Optional[str]
Truthy(s) == s # None /\ s # <<>>

Digit(d) == CASE d = 0 -> "0" [] d = 1 -> "1" [] d = 2 -> "2" [] d = 3 -> "3"
              [] d = 4 -> "4" [] d = 5 -> "5" [] d = 6 -> "6" [] d = 7 -> "7"
              [] d = 8 -> "8" [] d = 9 -> "9"

\* str(n) of a non-negative int
RECURSIVE IntToStr(_)
IntToStr(n) == IF n < 10 THEN <<Digit(n)>> ELSE IntToStr(n \div 10) \o <<Digit(n % 10)>>

\* dict.get(k, default): the default only when the key is absent
Get(d, k, default) == IF k \in DOMAIN d THEN d[k] ELSE default

\* sep.join(parts)
RECURSIVE Join(_, _)
Join(sep, parts) ==
  IF parts = <<>> THEN <<>>
  ELSE IF Len(parts) = 1 THEN parts[1]
  ELSE parts[1] \o sep \o Join(sep, Tail(parts))

\* datetime.isoformat(): a timestamp string, distinct from the instant itself
IsoFormat(t) == [iso |-> t]

\* ------------------------------------------------- daemon/jsonl_parser.py
(* A line of a session log is blank, not JSON ("bad"), or a JSON object    *)
(* ("obj").  An object is a record holding the keys the event has.  The    *)
(* content of its message is a string [str |-> text], a list of blocks     *)
(* [list |-> <<block, ...>>] or null [null |-> TRUE].                       *)

\* the fields of the dataclass jsonl_parser.Conversation
ConversationFields == {"id", "timestamp", "messages", "project", "cwd", "git_branch"}

\* the text of the blocks that are of type text or carry a text
RECURSIVE TextParts(_)
TextParts(items) ==
  IF items = <<>> THEN <<>>
  ELSE LET item == Head(items)
       IN  (IF Get(item, "type", "") = "text" \/ "text" \in DOMAIN item
            THEN <<Get(item, "text", <<>>)>> ELSE <<>>) \o TextParts(Tail(items))

extract_message_content(json_obj) ==
  LET message_data == Get(json_obj, "message", [x \in {} |-> x])
  IN  IF DOMAIN message_data = {} THEN <<>>
      ELSE LET content == Get(message_data, "content", [str |-> <<>>])
           IN  IF "str" \in DOMAIN content THEN content.str
               ELSE IF "list" \in DOMAIN content
                    THEN Join(<<"\n">>, TextParts(content.list))
                    ELSE <<>>

\* _parse_timestamp: the parsed instant, or the current time
parse_timestamp(json_obj, now) ==
  IF "timestamp" \in DOMAIN json_obj /\ json_obj.timestamp.ok
  THEN json_obj.timestamp.t ELSE now

\* a variant of EventTypes that retains system events as well
EventTypesWithSystem == {"user", "assistant", "system"}

\* roles and event types are plain strings; an absent type is ""
EventTypes == {"user", "assistant"}

\* one iteration of the loop over the lines of the file
jsonl_line(st, line, now) ==
  IF line.kind # "obj" THEN st
  ELSE LET json_obj == line.obj
           msg_type == Get(json_obj, "type", "")
       IN  IF msg_type \notin EventTypes THEN st
           ELSE LET st1 == IF st.session_id = None
                           THEN [st EXCEPT !.session_id = Get(json_obj, "sessionId", None),
                                           !.cwd = Get(json_obj, "cwd", None),
                                           !.git_branch = Get(json_obj, "gitBranch", <<>>)]
                           ELSE st
                    content == extract_message_content(json_obj)
                IN  IF ~Truthy(content) THEN st1
                    ELSE [st1 EXCEPT !.messages = Append(@,
                            [role |-> msg_type, content |-> content,
                             timestamp |-> parse_timestamp(json_obj, now)])]

RECURSIVE jsonl_lines(_, _, _)
jsonl_lines(st, lines, now) ==
  IF lines = <<>> THEN st
  ELSE jsonl_lines(jsonl_line(st, Head(lines), now), Tail(lines), now)

(* parse_jsonl_file: <<>> for None, else <<conversation>>.  project_name   *)
(* and stem come from the path of the file.                                *)
parse_jsonl_file(project_name, stem, lines, now) ==
  LET st == jsonl_lines([messages |-> <<>>, session_id |-> None, cwd |-> None,
                         git_branch |-> None], lines, now)
  IN  IF st.messages = <<>> THEN <<>>
      ELSE << [id |-> IF Truthy(st.session_id) THEN st.session_id ELSE stem,
               timestamp |-> st.messages[1].timestamp,
               messages |-> st.messages,
               project |-> project_name,
               cwd |-> st.cwd,
               git_branch |-> st.git_branch] >>

\* ------------------------------------------------ daemon/memory_parser.py
\* the keyword arguments parse_memory_file gives the Conversation constructor
MemoryConversationKwargs == {"id", "timestamp", "messages", "project", "source"}

(* parse_memory_file: <<>> for None.  The id is "memory-" and a digest of  *)
(* the path, which stands for itself here.  The constructor of a dataclass       *)
(* raises TypeError on a keyword that is not one of its fields, and the    *)
(* function's except clause turns that into None.                          *)
parse_memory_file(project_name, path, text, mtime) ==
  IF Len(text) = 0 THEN <<>>
  ELSE LET content == Strip(text)
       IN  IF content = <<>> THEN <<>>
           ELSE IF ~(MemoryConversationKwargs \subseteq ConversationFields) THEN <<>>
           ELSE << [id |-> <<"m","e","m","o","r","y","-">> \o path,
                    timestamp |-> mtime,
                    messages |-> << [role |-> "assistant",
                                     content |-> content, timestamp |-> mtime] >>,
                    project |-> project_name,
                    cwd |-> None,
                    git_branch |-> None] >>

\* --------------------------------------------------------------- the store
(* Both the parent's DualSourceKnowledgeDB and the worker open the same    *)
(* persistent client on persist_directory, with the same two collection    *)
(* names: a collection is a set of documents [id, document, metadata],     *)
(* at most one per id.                                                     *)
Collections == {"alpha", "beta"}

\* str(uuid.uuid4()): a text no other draw and no digest equals
UuidStr(n) == <<"#">> \o IntToStr(n)

\* hashlib.sha256(text).hexdigest()[:36], taken as free of collisions
Sha256Hex36(text) == <<"$">> \o text

Ids(docs) == {d.id : d \in docs}

RangeOf(seq) == {seq[i] : i \in 1..Len(seq)}

\* Collection.add: documents under ids the collection does not hold yet
CollectionAdd(stored, batch) ==
  stored \cup {d \in RangeOf(batch) : d.id \notin Ids(stored)}

\* Collection.upsert: the batch replaces what was stored under its ids
CollectionUpsert(stored, batch) ==
  {d \in stored : d.id \notin Ids(RangeOf(batch))} \cup RangeOf(batch)

(* Collection.query(query_texts=[q], n_results=n, where=w): the n stored    *)
(* documents nearest to q among those w admits, nearest first.  The        *)
(* distance of the embedding model is a fixed function of the two texts,   *)
(* here the difference of their lengths.  Which of several documents at    *)
(* one distance comes first, or is cut off, is the library's choice.       *)
Distance(query_text, document) ==
  IF Len(query_text) >= Len(document) THEN Len(query_text) - Len(document)
  ELSE Len(document) - Len(query_text)

\* where is <<>> for None, <<project>> for {"project": project}
WhereAdmits(where, doc) == where = <<>> \/ doc.metadata.project = where[1]

Min(a, b) == IF a <= b THEN a ELSE b

\* the answers the library may give: sequences of the documents returned
CollectionQuery(stored, query_text, n_results, where) ==
  LET admitted == {d \in stored : WhereAdmits(where, d)}
      k == Min(n_results, Cardinality(admitted))
  IN  {res \in [1..k -> admitted] :
         /\ \A i \in 1..k : \A j \in 1..k : i # j => res[i] # res[j]
         /\ \A i \in 1..k : \A j \in 1..k :
               i < j => Distance(query_text, res[i].document)
                           <= Distance(query_text, res[j].document)
         /\ \A d \in admitted : \A i \in 1..k :
               d \notin RangeOf(res)
                  => Distance(query_text, res[i].document)
                        <= Distance(query_text, d.document)}

\* the loop over res["ids"][0]: one result entry per returned document
QueryEntries(res, query_text, col_name) ==
  [i \in 1..Len(res) |->
     [id |-> res[i].id, document |-> res[i].document, metadata |-> res[i].metadata,
      distance |-> Distance(query_text, res[i].document), collection |-> col_name]]

\* list.sort(key=lambda x: x["distance"]): a stable sort
RECURSIVE insert_by_distance(_, _)
insert_by_distance(sorted, e) ==
  IF sorted = <<>> THEN <<e>>
  ELSE IF Head(sorted).distance <= e.distance
       THEN <<Head(sorted)>> \o insert_by_distance(Tail(sorted), e)
       ELSE <<e>> \o sorted

RECURSIVE sort_by_distance(_, _)
sort_by_distance(entries, acc) ==
  IF entries = <<>> THEN acc
  ELSE sort_by_distance(Tail(entries), insert_by_distance(acc, Head(entries)))

\* ---------------------------------------------- daemon/knowledge_db_dual.py
\* a variant of db_target that takes the other collection for an explicit name
db_target_crossed(conv_dict, collection) ==
  IF collection = "alpha" THEN "beta" ELSE IF collection = "beta" THEN "alpha" ELSE ""

\* index_conversation, lines 154-182: the collection written, "" for ValueError
db_target(conv_dict, collection) ==
  IF collection = "auto"
  THEN LET source == Get(Get(conv_dict, "metadata", [x \in {} |-> x]), "source", "")
       IN  IF source = "json" THEN "alpha"
           ELSE IF source = "leveldb" THEN "beta" ELSE ""
  ELSE IF collection \in Collections THEN collection ELSE ""

\* a variant of db_skip_message that tests the content's truth only, without strip()
db_skip_message_no_strip(content) == content = None \/ content = <<>>

\* index_conversation, lines 216-219: whether the message is skipped as empty
db_skip_message(content) == content = None \/ content = <<>> \/ Strip(content) = <<>>

\* index_conversation, line 241: the id of the n-th document this run stores
db_doc_id(conversation_id, n, content, uuid0) == UuidStr(uuid0 + n)

\* index_conversation, lines 202-207 and 229-237
db_metadata(conv_dict, conversation_id, msg_dict) ==
  [conversation_id |-> conversation_id,
   role |-> Get(msg_dict, "role", "unknown"),
   timestamp |-> IsoFormat(msg_dict.timestamp),
   project |-> Get(conv_dict, "project", <<>>),
   source |-> "jsonl",
   cwd |-> Get(conv_dict, "cwd", <<>>),
   git_branch |-> Get(conv_dict, "git_branch", <<>>)]

\* index_conversation, lines 209-241: the loop over the messages
RECURSIVE db_batch(_, _, _, _, _)
db_batch(conv_dict, conversation_id, messages, uuid0, acc) ==
  IF messages = <<>> THEN acc
  ELSE LET msg_dict == Head(messages)
           content == Get(msg_dict, "content", <<>>)
       IN  IF db_skip_message(content)
           THEN db_batch(conv_dict, conversation_id, Tail(messages), uuid0, acc)
           ELSE db_batch(conv_dict, conversation_id, Tail(messages), uuid0,
                  Append(acc, [id |-> db_doc_id(conversation_id, Len(acc), content, uuid0),
                               document |-> content,
                               metadata |-> db_metadata(conv_dict, conversation_id, msg_dict)]))

\* index_conversation, line 200: uuid draws the conversation id takes
db_id_draws(conv_dict) == IF "id" \in DOMAIN conv_dict THEN 0 ELSE 1

\* the documents index_conversation hands to Collection.add
db_documents(conv_dict, uuid0) ==
  db_batch(conv_dict, Get(conv_dict, "id", UuidStr(uuid0)),
           Get(conv_dict, "messages", <<>>), uuid0 + db_id_draws(conv_dict), <<>>)

(* query_unified and _handle_query read the store through an answer per    *)
(* collection, answers[c], and a set of collections whose query raises,    *)
(* fails.  A query of n_results <= 0 raises in the library.  A handler's   *)
(* outcome is [error |-> "", value |-> <<dict>>] when it returns and       *)
(* [error |-> e, value |-> <<>>] when it raises e.                         *)
Returned(dict) == [error |-> "", value |-> <<dict>>]
Raised(e) == [error |-> e, value |-> <<>>]

\* the entries of the collections of col_names that the handler queries, in order
RECURSIVE merged_entries(_, _, _, _)
merged_entries(col_names, usable, answers, query_text) ==
  IF col_names = <<>> THEN <<>>
  ELSE (IF Head(col_names) \in usable
        THEN QueryEntries(answers[Head(col_names)], query_text, Head(col_names))
        ELSE <<>>) \o merged_entries(Tail(col_names), usable, answers, query_text)

\* whether a Collection.query call of the loop raises
query_raises(col_names, usable, n_results, fails) ==
  \E i \in 1..Len(col_names) :
     col_names[i] \in usable /\ (col_names[i] \in fails \/ n_results <= 0)

\* a variant of db_query_blank that tests the text's truth only, without strip()
db_query_blank_no_strip(query_text) == ~Truthy(query_text)

\* query_unified, line 314: whether the query text is rejected as empty
db_query_blank(query_text) == ~Truthy(query_text) \/ Strip(query_text) = <<>>

\* a variant of query_unified that counts the matches after the cut to n_results
query_unified_cut_count(query_text, n_results, collections, project_filter, answers, fails) ==
  IF db_query_blank(query_text) THEN Raised("ValueError")
  ELSE IF query_raises(collections, Collections, n_results, fails) THEN Raised("RuntimeError")
  ELSE LET results == sort_by_distance(
                        merged_entries(collections, Collections, answers, query_text), <<>>)
       IN  Returned([results |-> Take(results, n_results),
                     total_matches |-> Len(Take(results, n_results))])

(* query_unified, lines 313-380: ValueError for an empty query; a name     *)
(* outside valid_collections is skipped with a warning; an exception of a  *)
(* Collection.query becomes RuntimeError.                                  *)
query_unified(query_text, n_results, collections, project_filter, answers, fails) ==
  IF db_query_blank(query_text) THEN Raised("ValueError")
  ELSE IF query_raises(collections, Collections, n_results, fails) THEN Raised("RuntimeError")
  ELSE LET results == sort_by_distance(
                        merged_entries(collections, Collections, answers, query_text), <<>>)
       IN  Returned([results |-> Take(results, n_results),
                     total_matches |-> Len(results)])

\* query_unified, lines 319-323: the where filter, <<>> for None
db_where(project_filter) == IF Truthy(project_filter) THEN <<project_filter>> ELSE <<>>

\* -------------------------------------------------- daemon/chroma_worker.py
(* A request's conversation is a JSON object: a record holding the keys    *)
(* it has; a timestamp, when present, is already a string.                 *)

\* _handle_index, lines 170-181: the collection written, "" for ValueError
worker_target(conv, collection) ==
  IF collection = "auto"
  THEN LET source == Get(Get(conv, "metadata", [x \in {} |-> x]), "source", "")
       IN  IF source = "json" THEN "alpha"
           ELSE IF source = "leveldb" THEN "beta" ELSE ""
  ELSE IF collection \in Collections THEN collection ELSE ""

\* _handle_index, lines 200-202: whether the message is skipped as empty
worker_skip_message(content) == Strip(content) = <<>>

\* a variant of worker_doc_id that salts the digest with the process, as hash() does
worker_doc_id_salted(conversation_id, msg_idx, content, pid) ==
  Sha256Hex36(IntToStr(pid) \o <<"|">> \o conversation_id \o <<":">> \o IntToStr(msg_idx)
              \o <<":">> \o Take(content, IdPrefixLen))

\* _handle_index, lines 217-219; pid is the worker process computing it
worker_doc_id(conversation_id, msg_idx, content, pid) ==
  Sha256Hex36(conversation_id \o <<":">> \o IntToStr(msg_idx) \o <<":">>
              \o Take(content, IdPrefixLen))

\* _handle_index, lines 191-196 and 203-214
worker_metadata(conv, conversation_id, msg, now) ==
  [conversation_id |-> conversation_id,
   role |-> Get(msg, "role", "unknown"),
   timestamp |-> Get(msg, "timestamp", IsoFormat(now)),
   project |-> Get(conv, "project", <<>>),
   source |-> "jsonl",
   cwd |-> Get(conv, "cwd", <<>>),
   git_branch |-> Get(conv, "git_branch", <<>>)]

\* _handle_index, lines 199-220: the loop; msg_idx counts from 0
RECURSIVE worker_batch(_, _, _, _, _, _, _)
worker_batch(conv, conversation_id, messages, msg_idx, pid, now, acc) ==
  IF messages = <<>> THEN acc
  ELSE LET msg == Head(messages)
           content == Get(msg, "content", <<>>)
       IN  IF worker_skip_message(content)
           THEN worker_batch(conv, conversation_id, Tail(messages), msg_idx + 1, pid, now, acc)
           ELSE worker_batch(conv, conversation_id, Tail(messages), msg_idx + 1, pid, now,
                  Append(acc, [id |-> worker_doc_id(conversation_id, msg_idx, content, pid),
                               document |-> content,
                               metadata |-> worker_metadata(conv, conversation_id, msg, now)]))

\* content.strip() on a null content raises AttributeError
worker_raises(conv) ==
  \E i \in 1..Len(Get(conv, "messages", <<>>)) :
     Get(conv.messages[i], "content", <<>>) = None

\* _handle_index, line 190: uuid draws the conversation id takes
worker_id_draws(conv) == IF "id" \in DOMAIN conv THEN 0 ELSE 1

\* the documents _handle_index hands to Collection.upsert
worker_documents(conv, uuid0, pid, now) ==
  worker_batch(conv, Get(conv, "id", UuidStr(uuid0)), Get(conv, "messages", <<>>),
               0, pid, now, <<>>)

\* _handle_query, line 138: the default of n_results
DefaultNResults == 10

\* _handle_query, lines 139-141: the collections asked for and the where filter
worker_query_collections(params) == Get(params, "collections", <<"beta">>)

worker_where(params) ==
  IF Truthy(Get(params, "project_filter", None))
  THEN <<params.project_filter>> ELSE <<>>

\* a variant of worker_usable that queries every collection asked for
worker_usable_any(loaded) == Collections

\* _handle_query, lines 145-147: the collections the loop does not skip
worker_usable(loaded) == loaded

\* a variant of worker_handle_query that leaves the merged entries in query order
worker_handle_query_unsorted(params, loaded, answers, fails) ==
  LET query_text == Get(params, "query_text", <<>>)
  IN  IF query_text = None THEN Raised("'NoneType' object has no attribute 'strip'")
      ELSE IF Strip(query_text) = <<>> THEN Raised("query_text cannot be empty")
      ELSE LET n_results == Get(params, "n_results", DefaultNResults)
               col_names == worker_query_collections(params)
           IN  IF query_raises(col_names, worker_usable(loaded), n_results, fails)
               THEN Raised("query failed")
               ELSE LET results == merged_entries(col_names, worker_usable(loaded),
                                                  answers, query_text)
                    IN  Returned([results |-> Take(results, n_results),
                                  total_matches |-> Len(results)])

(* _handle_query(params, collections): loaded is the set of keys of        *)
(* collections.  A null query_text has no strip().                         *)
worker_handle_query(params, loaded, answers, fails) ==
  LET query_text == Get(params, "query_text", <<>>)
  IN  IF query_text = None THEN Raised("'NoneType' object has no attribute 'strip'")
      ELSE IF Strip(query_text) = <<>> THEN Raised("query_text cannot be empty")
      ELSE LET n_results == Get(params, "n_results", DefaultNResults)
               col_names == worker_query_collections(params)
           IN  IF query_raises(col_names, worker_usable(loaded), n_results, fails)
               THEN Raised("query failed")
               ELSE LET results == sort_by_distance(
                          merged_entries(col_names, worker_usable(loaded),
                                         answers, query_text), <<>>)
                    IN  Returned([results |-> Take(results, n_results),
                                  total_matches |-> Len(results)])

\* ------------------------------------------------------ the source files
(* Session logs <projects_dir>/<project>/<stem>.jsonl and memory files     *)
(* <projects_dir>/<project>/memory/<name>.md.  A file is its path; what    *)
(* it holds is one of a few texts.                                         *)
JsonlFiles == {"j1", "j2"}
MemFiles == {"m1"}
SourceFiles == JsonlFiles \cup MemFiles

FileProject(f) == IF f = "j2" THEN <<"p","2">> ELSE <<"p","1">>
FileStem(f) == IF f = "j1" THEN <<"f","1">> ELSE IF f = "j2" THEN <<"f","2">> ELSE <<"n","1">>

Times == 1..MaxNow

\* a session with a session id, a cwd and a branch; its second message is blank
LinesFull ==
  << [kind |-> "obj",
      obj |-> [type |-> "user", sessionId |-> <<"s","1">>, cwd |-> <<"/","w">>,
               gitBranch |-> <<"m">>, message |-> [content |-> [str |-> <<"h","i">>]],
               timestamp |-> [ok |-> TRUE, t |-> 1]]],
     [kind |-> "obj",
      obj |-> [type |-> "assistant", sessionId |-> <<"s","1">>, cwd |-> <<"/","w">>,
               gitBranch |-> <<"m">>, message |-> [content |-> [str |-> <<" ","\n">>]],
               timestamp |-> [ok |-> TRUE, t |-> 2]]] >>

\* an unreadable line, a system event, and a user event without session id, cwd,
\* branch or timestamp, whose content is a list of blocks
LinesBare ==
  << [kind |-> "bad"],
     [kind |-> "obj", obj |-> [type |-> "system", sessionId |-> <<"s","0">>]],
     [kind |-> "obj",
      obj |-> [type |-> "user",
               message |-> [content |-> [list |-> << [type |-> "text", text |-> <<"y","o">>],
                                                     [type |-> "tool_use"] >>]]]] >>

\* no user or assistant event with content
LinesNone ==
  << [kind |-> "blank"],
     [kind |-> "obj", obj |-> [type |-> "summary"]],
     [kind |-> "obj", obj |-> [type |-> "user", sessionId |-> <<"s","3">>,
                               message |-> [content |-> [str |-> <<>>]]]] >>

JsonlTexts == {"full", "bare", "none"}
JsonlLines(x) == IF x = "full" THEN LinesFull ELSE IF x = "bare" THEN LinesBare ELSE LinesNone

MemTexts == {"empty", "note"}
MemText(x) == IF x = "empty" THEN <<>> ELSE <<"#"," ","k","\n">>

\* a manifest: a function from the paths it records to their stored mtime
EmptyManifest == [f \in {} |-> 0]

\* ------------------------------------------------------ the export archives
(* What ClaudeWebParser.parse_zip yields for an archive: ParsedMessage     *)
(* records in archive order.                                               *)
ArchiveNames == {"A", "B"}

ArchiveMessages(a) ==
  IF a = "A"
  THEN << [id |-> <<"m","1">>, role |-> "user", content |-> <<"q">>, timestamp |-> 1,
           conversation_id |-> <<"w","1">>] >>
  ELSE << [id |-> <<"m","2">>, role |-> "assistant", content |-> <<"r">>, timestamp |-> 2,
           conversation_id |-> <<"w","2">>],
          [id |-> <<"m","3">>, role |-> "user", content |-> <<"q">>, timestamp |-> 1,
           conversation_id |-> <<"w","1">>],
          [id |-> <<"m","4">>, role |-> "user", content |-> <<"z">>, timestamp |-> 1,
           conversation_id |-> <<"w","2">>] >>

\* _md5_file: the digest of the archive's bytes, taken as free of collisions
md5_file(a) == <<"md5-", a>>

NoJournal == [exists |-> FALSE, last_file |-> 0, md5 |-> <<>>, conversations |-> 0,
              messages |-> 0]

\* ---------------------------------------------- daemon/claude_web_parser.py
(* A JSON value that should be an object is [kind |-> "obj", obj |-> dict] *)
(* or a value of another kind; chat_messages is [list |-> ..] or a number  *)
(* [num |-> n]; created_at is [ok |-> whether a format matches, t |-> ..]. *)

(* _parse_message with _validate_message, _parse_timestamp and             *)
(* _generate_message_hash, lines 90-160: <<>> for None, else the           *)
(* ParsedMessage.  The digest is taken as free of collisions.              *)
web_parse_message(raw_msg, conv_id, seen_ids) ==
  LET msg_id == Get(raw_msg, "uuid", <<"unknown_msg">>)
      role == Get(raw_msg, "sender", "unknown")
      lower == CASE role = "Human" -> "human" [] role = "User" -> "user"
                 [] role = "AI" -> "ai" [] role = "Assistant" -> "assistant"
                 [] OTHER -> role
      text == Get(raw_msg, "text", <<>>)
      blocks == Get(raw_msg, "content", <<>>)
      content == IF text = <<>> /\ "content" \in DOMAIN raw_msg /\ blocks # <<>>
                 THEN Join(<<" ">>,
                           [i \in 1..Len(SelectSeq(blocks,
                                            LAMBDA b : Get(b, "text", <<>>) # <<>>)) |->
                              SelectSeq(blocks, LAMBDA b : Get(b, "text", <<>>) # <<>>)[i].text])
                 ELSE text
      created_at == Get(raw_msg, "created_at", [ok |-> FALSE, t |-> 0])
      timestamp == IF created_at.ok THEN created_at.t ELSE 0
  IN  IF msg_id \in seen_ids THEN <<>>
      ELSE IF ~(Strip(content) # <<>> /\ lower \in {"human", "assistant", "user", "ai"})
           THEN <<>>
      ELSE << [id |-> msg_id, role |-> lower, content |-> content, timestamp |-> timestamp,
               conversation_id |-> conv_id,
               message_hash |-> [sha256 |-> <<content, timestamp, conv_id>>]] >>

\* a variant of web_parse_conversation that does not remember the ids it kept
RECURSIVE web_parse_conversation_forgetful(_, _, _)
web_parse_conversation_forgetful(chat_messages, conv_id, st) ==
  IF chat_messages = <<>> THEN st
  ELSE LET raw_msg == Head(chat_messages)
           parsed == IF raw_msg.kind # "obj" THEN <<>>
                     ELSE web_parse_message(raw_msg.obj, conv_id, st.seen)
       IN  web_parse_conversation_forgetful(Tail(chat_messages), conv_id,
             IF parsed # <<>> /\ parsed[1].id \notin st.seen
             THEN [st EXCEPT !.messages = Append(@, parsed[1]),
                             !.metrics.total_messages = @ + 1]
             ELSE st)

(* _parse_conversation, lines 77-88: the loop over chat_messages.  A       *)
(* message that is no object has no get(): the exception is caught and the *)
(* message skipped.  st holds the messages and the ids kept so far and the *)
(* metrics.                                                                *)
RECURSIVE web_parse_conversation(_, _, _)
web_parse_conversation(chat_messages, conv_id, st) ==
  IF chat_messages = <<>> THEN st
  ELSE LET raw_msg == Head(chat_messages)
           parsed == IF raw_msg.kind # "obj" THEN <<>>
                     ELSE web_parse_message(raw_msg.obj, conv_id, st.seen)
       IN  web_parse_conversation(Tail(chat_messages), conv_id,
             IF parsed # <<>> /\ parsed[1].id \notin st.seen
             THEN [st EXCEPT !.messages = Append(@, parsed[1]),
                             !.seen = @ \cup {parsed[1].id},
                             !.metrics.total_messages = @ + 1]
             ELSE st)

(* parse_zip, lines 46-61, with the head of _parse_conversation, lines     *)
(* 63-75: the loop over conversations_data.  chat_messages that is a       *)
(* number other than 0 cannot be iterated: the TypeError is caught and     *)
(* counted.  A conversation that is no object has no get(): the            *)
(* AttributeError of line 68 is caught, the handler's own                  *)
(* conv_data.get at line 53 raises it again, and parse_zip raises.         *)
RECURSIVE parse_zip(_, _)
parse_zip(conversations_data, st) ==
  IF conversations_data = <<>> THEN st
  ELSE LET conv_data == Head(conversations_data)
       IN  IF conv_data.kind # "obj" THEN [st EXCEPT !.error = "AttributeError"]
           ELSE LET conv_id == Get(conv_data.obj, "uuid", <<"unknown_conv">>)
                    chat_messages == Get(conv_data.obj, "chat_messages", [list |-> <<>>])
                    after ==
                      IF "num" \in DOMAIN chat_messages
                      THEN IF chat_messages.num = 0
                           THEN [st EXCEPT !.metrics.schema_errors = @ + 1]
                           ELSE [st EXCEPT !.metrics.failed_conversations = @ + 1]
                      ELSE IF chat_messages.list = <<>>
                           THEN [st EXCEPT !.metrics.schema_errors = @ + 1]
                           ELSE web_parse_conversation(chat_messages.list, conv_id, st)
                IN  parse_zip(Tail(conversations_data), after)

\* ------------------------------------------------------ daemon/indexer.py
\* index_anthropic_export, lines 160-162: the conversation ids, in dict order
RECURSIVE group_keys(_, _)
group_keys(messages, seen) ==
  IF messages = <<>> THEN seen
  ELSE group_keys(Tail(messages),
                  IF Head(messages).conversation_id \in RangeOf(seen) THEN seen
                  ELSE Append(seen, Head(messages).conversation_id))

\* sorted(conv_messages, key=timestamp): a stable sort
RECURSIVE insert_sorted(_, _)
insert_sorted(sorted, m) ==
  IF sorted = <<>> THEN <<m>>
  ELSE IF Head(sorted).timestamp <= m.timestamp
       THEN <<Head(sorted)>> \o insert_sorted(Tail(sorted), m)
       ELSE <<m>> \o sorted

RECURSIVE sort_by_timestamp(_, _)
sort_by_timestamp(messages, acc) ==
  IF messages = <<>> THEN acc
  ELSE sort_by_timestamp(Tail(messages), insert_sorted(acc, Head(messages)))

WebImportProject == <<"c","l","a","u","d","e","-","w","e","b","-","i","m","p","o","r","t">>

\* index_anthropic_export, lines 170-183: the parser.Conversation of one group
export_conversation(conv_id, messages) ==
  LET conv_messages == SelectSeq(messages, LAMBDA m : m.conversation_id = conv_id)
      sorted == sort_by_timestamp(conv_messages, <<>>)
      msgs == [i \in 1..Len(sorted) |->
                 [role |-> sorted[i].role, content |-> sorted[i].content,
                  timestamp |-> sorted[i].timestamp]]
  IN  [id |-> conv_id, timestamp |-> msgs[1].timestamp, messages |-> msgs,
       project |-> WebImportProject]

\* a variant of export_skips that does not look at the beta count
export_skips_on_hash_alone(journal_state, current_md5, beta_empty) ==
  journal_state.exists /\ journal_state.md5 = current_md5

\* index_anthropic_export, lines 130-142: the hash-based skip
export_skips(journal_state, current_md5, beta_empty) ==
  journal_state.exists /\ ~beta_empty /\ journal_state.md5 = current_md5

\* a variant of is_beta_empty whose comparison accepts every count
is_beta_empty_any_count(stats_ok, beta_count) == IF stats_ok THEN beta_count >= 0 ELSE TRUE

\* _is_beta_empty: an unreadable count is taken as empty
is_beta_empty(stats_ok, beta_count) == IF stats_ok THEN beta_count = 0 ELSE TRUE

\* a variant of jsonl_eligible that lists a file whose mtime equals the stored one
jsonl_eligible_on_equal(manifest_loaded, file_key, file_mtime) ==
  ~(file_key \in DOMAIN manifest_loaded /\ manifest_loaded[file_key] > file_mtime)

\* index_claude_projects_jsonl, lines 265-267: whether the file is listed for parsing
jsonl_eligible(manifest_loaded, file_key, file_mtime) ==
  ~(file_key \in DOMAIN manifest_loaded /\ manifest_loaded[file_key] >= file_mtime)

\* index_memory_files, line 300
memory_eligible(manifest_loaded, file_key, file_mtime) ==
  file_key \notin DOMAIN manifest_loaded \/ manifest_loaded[file_key] < file_mtime

\* manifest[key] = mtime
ManifestPut(m, key, file_mtime) ==
  [k \in DOMAIN m \cup {key} |-> IF k = key THEN file_mtime ELSE m[k]]

\* a variant of manifest_after_file that records the file whatever the outcome
manifest_after_file_always(m, key, file_mtime, outcome) == ManifestPut(m, key, file_mtime)

(* index_claude_projects_jsonl, lines 276-283, and index_memory_files,     *)
(* lines 307-314: the cycle's manifest after one file.  outcome is "none"  *)
(* when the decoder returned None, "raised" when _index_conversation       *)
(* raised, "ok" when it returned.                                          *)
manifest_after_file(m, key, file_mtime, outcome) ==
  IF outcome = "ok" THEN ManifestPut(m, key, file_mtime) ELSE m

\* a variant of files_after_file that keeps a file whose decoding or indexing failed
files_after_file_retry(files, item, outcome) == IF outcome = "ok" THEN files \ {item} ELSE files

(* the for loops over files_to_parse, lines 275 and 306: the files still   *)
(* to visit after one iteration, whatever its outcome                      *)
files_after_file(files, item, outcome) == files \ {item}

\* ------------------------------------------------------------------- state
VARIABLES
  coll,       \* the store: collection name -> set of documents
  nextUuid,   \* uuid4() draws made so far
  mtime,      \* source file -> its modification stamp
  text,       \* source file -> which text it holds
  manifest,   \* alpha_index_manifest.json
  exports,    \* the data-*.zip archives of the exports directory, oldest first
  journal,    \* beta_import_state.json
  th,         \* request thread -> the locals of the ingest handler it runs
  worker,     \* the vector worker: its process, the collections it loaded, whether it
              \* runs, the lines it wrote to stdout and the lines it read from stdin
  server,     \* the API process: whether it serves or has exited, and the availability
              \* of the vector backend its supervisor records
  damaged,    \* manifest and journal file -> "" when the file is absent or holds the
              \* JSON object of its variable, else what it holds instead
  obs,        \* history: the step just taken and what it did
  wlast,      \* history: the last index request a worker stored, and the ids it computed
  watch       \* ClaudeHistoryWatcher: _pending_callback, the time since
              \* _last_modified_time, where the main loop and the observer thread stand

vars == <<coll, nextUuid, mtime, text, manifest, exports, journal, th, worker, server,
          damaged, obs, wlast, watch>>

AllThreads == {"t1", "t2"}
\* the threads that run ingest handlers when cycles do not overlap
SeqThreads == {"t1"}

IdleThread == [pc |-> "idle", files |-> {}, convs |-> <<>>, manifest |-> EmptyManifest,
               indexed |-> 0, total_messages |-> 0, zip |-> 0, md5 |-> <<>>]

(* act: the action; t: its thread; pid: the worker process; file, conv,    *)
(* target, outcome: the file decoded, what the decoder returned or the     *)
(* caller passed, the collection asked for and the outcome of the index    *)
(* call; repeat: "same" or "other" when the call repeats the last stored   *)
(* one, in the same or in another process; found, stats_ok, beta_empty,    *)
(* md5_match, parsed: what index_anthropic_export saw and whether it       *)
(* called the parser; result: what the handler returned; request,          *)
(* response: the arguments of a query and its outcome or HTTP response.    *)
NoObs == [act |-> "", t |-> "", pid |-> 0, file |-> "", conv |-> <<>>, target |-> "",
          outcome |-> "", repeat |-> "", found |-> FALSE, stats_ok |-> FALSE,
          beta_empty |-> FALSE, md5_match |-> FALSE, parsed |-> FALSE, result |-> 0,
          request |-> <<>>, response |-> <<>>]

\* the texts a write may leave in a file
FileTexts(f) == IF f = "j1" THEN {"full", "none"}
                ELSE IF f = "j2" THEN {"bare"} ELSE {"note"}

InitText == [f \in SourceFiles |-> IF f = "j1" THEN "full" ELSE IF f = "j2" THEN "bare" ELSE "note"]

\* before start_api_server: no process, the backend not initialised
NoServer == [status |-> "none", backend |-> "uninitialized"]

\* both files absent or holding a JSON object
Undamaged == [manifest |-> "", journal |-> ""]

\* before any worker process was started
NoWorker == [pid |-> 0, loaded |-> {}, status |-> "none", out |-> <<>>, inp |-> <<>>]

Init ==
  /\ coll = [c \in Collections |-> {}]
  /\ nextUuid = 0
  /\ mtime = [f \in SourceFiles |-> 1]
  /\ text = InitText
  /\ manifest = EmptyManifest
  /\ exports = <<>>
  /\ journal = NoJournal
  /\ th = [t \in AllThreads |-> IdleThread]
  /\ worker = NoWorker
  /\ server = NoServer
  /\ damaged = Undamaged
  /\ obs = NoObs
  /\ wlast = [conv |-> <<>>, target |-> "", pid |-> 0, ids |-> {}]
  /\ watch = [pending |-> FALSE, since |-> DebounceTicks, flip |-> 0, seen |-> 0,
              pc |-> "loop", opc |-> "idle"]

\* ------------------------------------------------------- the environment
\* the newest modification stamp among the source files
RECURSIVE MaxOf(_)
MaxOf(S) == IF S = {} THEN 0
            ELSE LET x == CHOOSE y \in S : TRUE
                     rest == MaxOf(S \ {x})
                 IN  IF x > rest THEN x ELSE rest

NewestMtime == MaxOf({mtime[f] : f \in SourceFiles})

\* a source file is written: it gets a stamp newer than every other, its text may change
Touch(f) ==
  /\ NewestMtime < MaxMtime
  /\ mtime' = [mtime EXCEPT ![f] = NewestMtime + 1]
  /\ \E x \in FileTexts(f) : text' = [text EXCEPT ![f] = x]
  /\ obs' = [NoObs EXCEPT !.act = "Touch", !.file = f]
  /\ UNCHANGED <<coll, nextUuid, manifest, exports, journal, th, worker, wlast, server, damaged, watch>>

\* a new archive appears in the exports directory, named after the ones there
DropExport(a) ==
  /\ Len(exports) < MaxExports
  /\ exports' = Append(exports, a)
  /\ obs' = [NoObs EXCEPT !.act = "DropExport"]
  /\ UNCHANGED <<coll, nextUuid, mtime, text, manifest, journal, th, worker, wlast, server, damaged, watch>>

(* the manifest or the journal file is overwritten from outside: with     *)
(* text that is not JSON ("garbage"), or with the JSON value null          *)
Damage(file, kind) ==
  /\ damaged[file] = ""
  /\ damaged' = [damaged EXCEPT ![file] = kind]
  /\ manifest' = IF file = "manifest" THEN EmptyManifest ELSE manifest
  /\ journal' = IF file = "journal" THEN NoJournal ELSE journal
  /\ obs' = [NoObs EXCEPT !.act = "Damage", !.file = file, !.outcome = kind]
  /\ UNCHANGED <<coll, nextUuid, mtime, text, exports, th, worker, wlast, server, watch>>

\* a collection is purged on disk
Purge(c) ==
  /\ coll[c] # {}
  /\ coll' = [coll EXCEPT ![c] = {}]
  /\ obs' = [NoObs EXCEPT !.act = "Purge", !.target = c]
  /\ UNCHANGED <<nextUuid, mtime, text, manifest, exports, journal, th, worker, wlast, server, damaged, watch>>

\* -------------------------------------- ConversationIndexer._index_conversation
(* _index_conversation(conversation, collection) with enrichment off: the  *)
(* call of db.index_conversation.  add_ok is whether Collection.add        *)
(* returns; the result is "ok" or "raised".  Out of uuid draws the add     *)
(* fails.                                                                  *)
index_needs(conv_dict) == db_id_draws(conv_dict) + Len(db_documents(conv_dict, nextUuid))

index_outcome(conv_dict, collection, add_ok) ==
  IF db_target(conv_dict, collection) = "" THEN "raised"
  ELSE IF Get(conv_dict, "messages", <<>>) = <<>> THEN "ok"
  ELSE IF db_documents(conv_dict, nextUuid) = <<>> THEN "ok"
  ELSE IF add_ok /\ nextUuid + index_needs(conv_dict) <= MaxUuid THEN "ok" ELSE "raised"

\* the store and the uuid draws after the call
IndexConversation(conv_dict, collection, add_ok) ==
  LET docs == db_documents(conv_dict, nextUuid)
      target == db_target(conv_dict, collection)
  IN  IF index_outcome(conv_dict, collection, add_ok) = "ok" /\ docs # <<>>
      THEN /\ coll' = [coll EXCEPT ![target] = CollectionAdd(@, docs)]
           /\ nextUuid' = nextUuid + index_needs(conv_dict)
      ELSE UNCHANGED <<coll, nextUuid, watch>>

\* the conversations a caller such as index_claude_code_json passes directly
DirectConversations ==
  {parse_jsonl_file(FileProject("j1"), FileStem("j1"), JsonlLines(x), 1)[1] :
     x \in {"full", "bare"}}

\* one call of _index_conversation from outside the manifest and journal cycles
DirectIndex(t, conv, c, add_ok) ==
  /\ th[t].pc = "idle"
  /\ IndexConversation(conv, c, add_ok)
  /\ obs' = [NoObs EXCEPT !.act = "DirectIndex", !.t = t, !.conv = <<conv>>, !.target = c,
                          !.outcome = index_outcome(conv, c, add_ok),
                          !.repeat = IF /\ obs.act = "DirectIndex" /\ obs.outcome = "ok"
                                        /\ obs.conv = <<conv>> /\ obs.target = c
                                        /\ index_outcome(conv, c, add_ok) = "ok"
                                     THEN "same" ELSE ""]
  /\ UNCHANGED <<mtime, text, manifest, exports, journal, th, worker, wlast, server, damaged, watch>>

\* ------------------------------ ConversationIndexer.index_claude_projects_jsonl
\* a variant of JsonlStart that lists every file when the alpha collection is empty
JsonlStartSelfHeal(t, project_filter) ==
  /\ th[t].pc = "idle"
  /\ LET loaded == IF damaged.manifest = "" THEN manifest ELSE EmptyManifest
         listed == IF damaged.manifest = "null" THEN {}
                   ELSE {f \in JsonlFiles :
                           coll["alpha"] = {} \/ jsonl_eligible(loaded, f, mtime[f])}
     IN  th' = [th EXCEPT ![t] =
                  IF listed = {} THEN IdleThread
                  ELSE [IdleThread EXCEPT !.pc = "jsonl", !.manifest = loaded,
                                          !.files = {<<f, mtime[f]>> : f \in listed}]]
  /\ obs' = [NoObs EXCEPT !.act = "JsonlStart", !.t = t, !.request = <<project_filter>>,
                          !.outcome = IF damaged.manifest = "null" THEN "raised" ELSE ""]
  /\ UNCHANGED <<coll, nextUuid, mtime, text, manifest, exports, journal, worker, wlast, server, damaged, watch>>

(* lines 251-272: load the manifest, list the files to parse.  A manifest   *)
(* file that is not JSON loads as {} (_load_index_manifest, 227-236); one  *)
(* that holds null loads as None, `file_key in manifest` raises TypeError  *)
(* and the handler's outer except returns 0.  project_filter is the        *)
(* argument of that name, None when the caller gives none: no line of the  *)
(* function reads it.                                                      *)
JsonlStart(t, project_filter) ==
  /\ th[t].pc = "idle"
  /\ LET loaded == IF damaged.manifest = "" THEN manifest ELSE EmptyManifest
         listed == IF damaged.manifest = "null" THEN {}
                   ELSE {f \in JsonlFiles : jsonl_eligible(loaded, f, mtime[f])}
     IN  th' = [th EXCEPT ![t] =
                  IF listed = {} THEN IdleThread
                  ELSE [IdleThread EXCEPT !.pc = "jsonl", !.manifest = loaded,
                                          !.files = {<<f, mtime[f]>> : f \in listed}]]
  /\ obs' = [NoObs EXCEPT !.act = "JsonlStart", !.t = t, !.request = <<project_filter>>,
                          !.outcome = IF damaged.manifest = "null" THEN "raised" ELSE ""]
  /\ UNCHANGED <<coll, nextUuid, mtime, text, manifest, exports, journal, worker, wlast, server, damaged, watch>>

\* lines 275-283: one iteration of the loop over files_to_parse
JsonlStep(t, item, now, add_ok) ==
  /\ th[t].pc = "jsonl"
  /\ item \in th[t].files
  /\ LET f == item[1]
         conversation == parse_jsonl_file(FileProject(f), FileStem(f), JsonlLines(text[f]), now)
         outcome == IF conversation = <<>> THEN "none"
                    ELSE index_outcome(conversation[1], "alpha", add_ok)
     IN  /\ IF conversation = <<>> THEN UNCHANGED <<coll, nextUuid, watch>>
            ELSE IndexConversation(conversation[1], "alpha", add_ok)
         /\ th' = [th EXCEPT ![t].files = files_after_file(@, item, outcome),
                             ![t].indexed = IF outcome = "ok" THEN @ + 1 ELSE @,
                             ![t].manifest = manifest_after_file(@, f, item[2], outcome)]
         /\ obs' = [NoObs EXCEPT !.act = "JsonlStep", !.t = t, !.file = f,
                                 !.outcome = outcome, !.conv = conversation,
                                 !.target = "alpha"]
  /\ UNCHANGED <<mtime, text, manifest, exports, journal, worker, wlast, server, damaged, watch>>

\* lines 285-287 and _save_index_manifest: save_ok is whether the write succeeds
JsonlSave(t, save_ok) ==
  /\ th[t].pc = "jsonl"
  /\ th[t].files = {}
  /\ manifest' = IF save_ok THEN th[t].manifest ELSE manifest
  /\ th' = [th EXCEPT ![t] = IdleThread]
  /\ damaged' = IF save_ok THEN [damaged EXCEPT !.manifest = ""] ELSE damaged
  /\ obs' = [NoObs EXCEPT !.act = "JsonlSave", !.t = t, !.result = th[t].indexed]
  /\ UNCHANGED <<coll, nextUuid, mtime, text, exports, journal, worker, wlast, server, watch>>

\* ----------------------------------------- ConversationIndexer.index_memory_files
\* lines 296-304: as in index_claude_projects_jsonl
MemoryStart(t) ==
  /\ th[t].pc = "idle"
  /\ LET loaded == IF damaged.manifest = "" THEN manifest ELSE EmptyManifest
         listed == IF damaged.manifest = "null" THEN {}
                   ELSE {f \in MemFiles : memory_eligible(loaded, f, mtime[f])}
     IN  th' = [th EXCEPT ![t] =
                  IF listed = {} THEN IdleThread
                  ELSE [IdleThread EXCEPT !.pc = "memory", !.manifest = loaded,
                                          !.files = {<<f, mtime[f]>> : f \in listed}]]
  /\ obs' = [NoObs EXCEPT !.act = "MemoryStart", !.t = t,
                          !.outcome = IF damaged.manifest = "null" THEN "raised" ELSE ""]
  /\ UNCHANGED <<coll, nextUuid, mtime, text, manifest, exports, journal, worker, wlast, server, damaged, watch>>

\* lines 306-314
MemoryStep(t, item, add_ok) ==
  /\ th[t].pc = "memory"
  /\ item \in th[t].files
  /\ LET f == item[1]
         conv == parse_memory_file(FileProject(f), FileStem(f), MemText(text[f]), mtime[f])
         outcome == IF conv = <<>> THEN "none" ELSE index_outcome(conv[1], "alpha", add_ok)
     IN  /\ IF conv = <<>> THEN UNCHANGED <<coll, nextUuid, watch>>
            ELSE IndexConversation(conv[1], "alpha", add_ok)
         /\ th' = [th EXCEPT ![t].files = files_after_file(@, item, outcome),
                             ![t].indexed = IF outcome = "ok" THEN @ + 1 ELSE @,
                             ![t].manifest = manifest_after_file(@, f, item[2], outcome)]
         /\ obs' = [NoObs EXCEPT !.act = "MemoryStep", !.t = t, !.file = f,
                                 !.outcome = outcome, !.conv = conv, !.target = "alpha"]
  /\ UNCHANGED <<mtime, text, manifest, exports, journal, worker, wlast, server, damaged, watch>>

\* lines 315-317
MemorySave(t, save_ok) ==
  /\ th[t].pc = "memory"
  /\ th[t].files = {}
  /\ manifest' = IF save_ok THEN th[t].manifest ELSE manifest
  /\ th' = [th EXCEPT ![t] = IdleThread]
  /\ damaged' = IF save_ok THEN [damaged EXCEPT !.manifest = ""] ELSE damaged
  /\ obs' = [NoObs EXCEPT !.act = "MemorySave", !.t = t, !.result = th[t].indexed]
  /\ UNCHANGED <<coll, nextUuid, mtime, text, exports, journal, worker, wlast, server, watch>>

\* ------------------------------------- ConversationIndexer.index_anthropic_export
(* lines 112-162: find the newest archive, hash it, read the beta count    *)
(* and the journal, then skip or parse.  stats_ok is whether               *)
(* get_collection_stats returns.  The journal's indexed_at is left out: no *)
(* decision reads it.  A journal that is not JSON raises JSONDecodeError,  *)
(* which lines 141-142 pass over; one that holds null has no get(), and    *)
(* the AttributeError leaves the handler.                                  *)
ExportStart(t, stats_ok) ==
  /\ th[t].pc = "idle"
  /\ LET found == exports # <<>>
         zip == Len(exports)
         current_md5 == IF found THEN md5_file(exports[zip]) ELSE <<>>
         beta_empty == is_beta_empty(stats_ok, Cardinality(coll["beta"]))
         skips == found /\ damaged.journal = ""
                        /\ export_skips(journal, current_md5, beta_empty)
         raises == found /\ damaged.journal = "null" /\ ~beta_empty
         parses == found /\ ~skips /\ ~raises
     IN  /\ th' = [th EXCEPT ![t] =
                     IF parses
                     THEN [IdleThread EXCEPT !.pc = "export", !.zip = zip, !.md5 = current_md5,
                                             !.convs = group_keys(ArchiveMessages(exports[zip]), <<>>)]
                     ELSE IdleThread]
         /\ obs' = [NoObs EXCEPT !.act = "ExportStart", !.t = t,
                                 !.found = found, !.stats_ok = stats_ok,
                                 !.beta_empty = found /\ beta_empty,
                                 !.md5_match = found /\ journal.exists
                                                     /\ journal.md5 = current_md5,
                                 !.parsed = parses,
                                 !.outcome = IF raises THEN "raised" ELSE ""]
  /\ UNCHANGED <<coll, nextUuid, mtime, text, manifest, exports, journal, worker, wlast, server, damaged, watch>>

\* lines 167-190: one iteration of the loop over the conversations
ExportStep(t, add_ok) ==
  /\ th[t].pc = "export"
  /\ th[t].convs # <<>>
  /\ LET conversation == export_conversation(Head(th[t].convs),
                                             ArchiveMessages(exports[th[t].zip]))
         outcome == index_outcome(conversation, "beta", add_ok)
     IN  /\ IndexConversation(conversation, "beta", add_ok)
         /\ th' = [th EXCEPT ![t].convs = Tail(@),
                             ![t].indexed = IF outcome = "ok" THEN @ + 1 ELSE @,
                             ![t].total_messages =
                                IF outcome = "ok" THEN @ + Len(conversation.messages) ELSE @]
         /\ obs' = [NoObs EXCEPT !.act = "ExportStep", !.t = t, !.outcome = outcome,
                                 !.conv = <<conversation>>, !.target = "beta"]
  /\ UNCHANGED <<mtime, text, manifest, exports, journal, worker, wlast, server, damaged, watch>>

\* lines 194-208: write the journal; write_ok is whether the write succeeds
ExportFinish(t, write_ok) ==
  /\ th[t].pc = "export"
  /\ th[t].convs = <<>>
  /\ journal' = IF write_ok
                THEN [exists |-> TRUE, last_file |-> th[t].zip, md5 |-> th[t].md5,
                      conversations |-> th[t].indexed, messages |-> th[t].total_messages]
                ELSE journal
  /\ th' = [th EXCEPT ![t] = IdleThread]
  /\ damaged' = IF write_ok THEN [damaged EXCEPT !.journal = ""] ELSE damaged
  /\ obs' = [NoObs EXCEPT !.act = "ExportFinish", !.t = t, !.result = th[t].indexed]
  /\ UNCHANGED <<coll, nextUuid, mtime, text, manifest, exports, worker, wlast, server, watch>>

\* ------------------------------------------------------- the vector worker
\* the contents of more than IdPrefixLen characters: they differ only after the prefix
LongX == Rep("a", IdPrefixLen) \o <<"x">>
LongY == Rep("a", IdPrefixLen) \o <<"y">>

\* the conversations of the index requests sent to the worker
WorkerConversations ==
  { [id |-> <<"c","1">>, project |-> <<"p","1">>,
     messages |-> << [role |-> "user", content |-> LongX, timestamp |-> IsoFormat(1)],
                     [role |-> "assistant", content |-> <<" ","\t">>,
                      timestamp |-> IsoFormat(1)] >>],
    [id |-> <<"c","1">>, project |-> <<"p","1">>, cwd |-> None,
     messages |-> << [role |-> "user", content |-> LongY] >>],
    [id |-> <<"c","2">>,
     messages |-> << [role |-> "user", content |-> <<"k">>, timestamp |-> IsoFormat(1)],
                     [role |-> "user", content |-> None] >>] }

\* main, line 103: the line that signals readiness; a JSON string is [str |-> s]
ReadyMarker == [id |-> "__init__", result |-> [str |-> "ready"]]

\* a variant of start_output that writes the marker whether or not init succeeded
start_output_always(init_ok) == <<ReadyMarker>>

\* main, lines 98-103: what the process has written when initialisation is over
start_output(init_ok) == IF init_ok THEN <<ReadyMarker>> ELSE <<>>

(* main, lines 62-103: a worker process starts and its initialisation      *)
(* succeeds; beta_ok is whether beta loads                                 *)
WorkerStart(beta_ok) ==
  /\ worker.pid < MaxPid
  /\ worker' = [pid |-> worker.pid + 1, loaded |-> IF beta_ok THEN {"beta"} ELSE {},
                status |-> "ready", out |-> start_output(TRUE), inp |-> <<>>]
  /\ obs' = [NoObs EXCEPT !.act = "WorkerStart", !.pid = worker.pid + 1]
  /\ UNCHANGED <<coll, nextUuid, mtime, text, manifest, exports, journal, th, wlast, server, damaged, watch>>

\* whether _handle_index returns ("ok") or raises ("raised")
worker_outcome(conv, collection, upsert_ok) ==
  IF worker_target(conv, collection) = "" THEN "raised"
  ELSE IF worker_raises(conv) THEN "raised"
  ELSE IF worker_documents(conv, nextUuid, worker.pid, 0) = <<>> THEN "ok"
  ELSE IF upsert_ok /\ nextUuid + worker_id_draws(conv) <= MaxUuid THEN "ok" ELSE "raised"

\* the ids _handle_index computed, with what they were computed from
worker_id_log(conv, docs) ==
  {[cid |-> docs[i].metadata.conversation_id, prefix |-> Take(docs[i].document, IdPrefixLen),
    idx |-> CHOOSE k \in 1..Len(conv.messages) :
               /\ Get(conv.messages[k], "content", <<>>) = docs[i].document
               /\ Cardinality({j \in 1..k : ~worker_skip_message(
                                   Get(conv.messages[j], "content", <<>>))}) = i,
    id |-> docs[i].id] : i \in 1..Len(docs)}

\* _handle_index(params, ...): what it does to the store
HandleIndex(conv, collection, now, upsert_ok) ==
  LET target == worker_target(conv, collection)
      docs == worker_documents(conv, nextUuid, worker.pid, now)
      outcome == worker_outcome(conv, collection, upsert_ok)
      stores == outcome = "ok" /\ docs # <<>>
  IN  /\ coll' = IF stores THEN [coll EXCEPT ![target] = CollectionUpsert(@, docs)]
                 ELSE coll
      /\ nextUuid' = IF stores THEN nextUuid + worker_id_draws(conv) ELSE nextUuid
      /\ wlast' = IF stores
                  THEN [conv |-> <<conv>>, target |-> target, pid |-> worker.pid,
                        ids |-> worker_id_log(conv, docs)]
                  ELSE wlast

\* the request loop's "index" method, the response left out
WorkerIndex(conv, collection, now, upsert_ok) ==
  /\ worker.status = "ready"
  /\ HandleIndex(conv, collection, now, upsert_ok)
  /\ LET target == worker_target(conv, collection)
         docs == worker_documents(conv, nextUuid, worker.pid, now)
         outcome == worker_outcome(conv, collection, upsert_ok)
         stores == outcome = "ok" /\ docs # <<>>
     IN  obs' = [NoObs EXCEPT !.act = "WorkerIndex", !.pid = worker.pid, !.conv = <<conv>>,
                              !.target = collection, !.outcome = outcome,
                              !.repeat = IF stores /\ wlast.conv = <<conv>>
                                                   /\ wlast.target = target
                                         THEN (IF wlast.pid = worker.pid THEN "same"
                                               ELSE "other")
                                         ELSE ""]
  /\ UNCHANGED <<mtime, text, manifest, exports, journal, th, worker, server, damaged, watch>>

\* main, lines 97-99: initialisation raises and the process exits with status 1
WorkerInitFail ==
  /\ worker.pid < MaxPid
  /\ worker' = [pid |-> worker.pid + 1, loaded |-> {}, status |-> "failed",
                out |-> start_output(FALSE), inp |-> <<>>]
  /\ obs' = [NoObs EXCEPT !.act = "WorkerInitFail", !.pid = worker.pid + 1]
  /\ UNCHANGED <<coll, nextUuid, mtime, text, manifest, exports, journal, th, wlast, server, damaged, watch>>

(* The lines the parent may send.  A line is blank, not JSON ("bad"), a    *)
(* JSON value that is no object ("array"), or a JSON object ("obj").       *)
ShortConversation ==
  [id |-> <<"c","3">>, project |-> <<"p","1">>,
   messages |-> << [role |-> "user", content |-> <<"k","k","k">>, timestamp |-> IsoFormat(1)],
                   [role |-> "assistant", content |-> <<"k">>, timestamp |-> IsoFormat(1)] >>]

OtherConversation ==
  [id |-> <<"c","4">>, project |-> <<"p","2">>,
   messages |-> << [role |-> "user", content |-> <<"k","k">>, timestamp |-> IsoFormat(1)] >>]

RequestLines ==
  { [kind |-> "blank"], [kind |-> "bad"], [kind |-> "array"],
    [kind |-> "obj", obj |-> [id |-> "__init__", method |-> "ping"]],
    [kind |-> "obj", obj |-> [method |-> "stop"]],
    [kind |-> "obj", obj |-> [id |-> "r2", method |-> "query",
                              params |-> [query_text |-> <<"k">>, n_results |-> 1,
                                          collections |-> <<"beta", "beta">>]]],
    [kind |-> "obj", obj |-> [id |-> "r3", method |-> "query",
                              params |-> [query_text |-> <<"k">>,
                                          collections |-> <<"beta", "alpha", "beta">>]]],
    [kind |-> "obj", obj |-> [id |-> "r4", method |-> "query",
                              params |-> [query_text |-> <<" ", "\t">>]]],
    [kind |-> "obj", obj |-> [id |-> "r5", method |-> "index",
                              params |-> [conversation |-> ShortConversation,
                                          collection |-> "beta"]]],
    [kind |-> "obj", obj |-> [id |-> "r6", method |-> "index",
                              params |-> [conversation |-> OtherConversation,
                                          collection |-> "alpha"]]],
    [kind |-> "obj", obj |-> [id |-> "r7", method |-> "index",
                              params |-> [conversation |-> OtherConversation]]] }

\* str(exc) of what _handle_index raised
worker_index_error(conv, collection) ==
  IF worker_target(conv, collection) = "" THEN "ValueError"
  ELSE IF worker_raises(conv) THEN "'NoneType' object has no attribute 'strip'"
  ELSE "upsert failed"

\* respond_ok and respond_err: the line written
respond_ok(req_id, result) == [id |-> req_id, result |-> result]
respond_err(req_id, error) == [id |-> req_id, error |-> error]

\* a variant of worker_reply that answers a handler's exception with no line
worker_reply_silent(req_id, outcome) ==
  IF outcome.error = "" THEN <<respond_ok(req_id, outcome.value[1])>> ELSE <<>>

\* main, lines 120-131: the line the dispatch writes for what the method did
worker_reply(req_id, outcome) ==
  IF outcome.error = "" THEN <<respond_ok(req_id, outcome.value[1])>>
  ELSE <<respond_err(req_id, outcome.error)>>

NoParams == [x \in {} |-> x]

(* main, lines 105-131: the loop reads one line and answers it.  fails are *)
(* the collections whose query raises.  A JSON value that is no object has *)
(* no get(): the exception leaves the loop and ends the process.           *)
WorkerRead(line, now, upsert_ok, fails) ==
  /\ worker.status = "ready"
  /\ Len(worker.inp) < MaxLines
  /\ IF line.kind # "obj"
     THEN /\ worker' = [worker EXCEPT !.inp = Append(@, [kind |-> line.kind, id |-> ""]),
                                      !.status = IF line.kind = "array" THEN "crashed" ELSE @]
          /\ obs' = [NoObs EXCEPT !.act = "WorkerRead", !.pid = worker.pid]
          /\ UNCHANGED <<coll, nextUuid, wlast>>
     ELSE LET req == line.obj
              req_id == Get(req, "id", "unknown")
              method == Get(req, "method", "")
              params == Get(req, "params", NoParams)
              query_text == Get(params, "query_text", <<>>)
              n_results == IF method = "query" THEN Get(params, "n_results", DefaultNResults)
                           ELSE 0
          IN  \E aa \in CollectionQuery(coll["alpha"], query_text, n_results,
                                        worker_where(params)),
                 ab \in CollectionQuery(coll["beta"], query_text, n_results,
                                        worker_where(params)) :
                LET answers == [c \in Collections |-> IF c = "alpha" THEN aa ELSE ab]
                    conv == Get(params, "conversation", NoParams)
                    collection == Get(params, "collection", "auto")
                    queried == worker_handle_query(params, worker.loaded, answers, fails)
                    outcome ==
                      CASE method = "ping" -> Returned([str |-> "pong"])
                        [] method = "query" ->
                             IF queried.error = "" THEN Returned([obj |-> queried.value[1]])
                             ELSE queried
                        [] method = "index" ->
                             IF worker_outcome(conv, collection, upsert_ok) = "ok"
                             THEN Returned([obj |-> [indexed |-> TRUE]])
                             ELSE Raised(worker_index_error(conv, collection))
                        [] OTHER -> Raised("Unknown method")
                IN  /\ IF method = "index"
                       THEN HandleIndex(conv, collection, now, upsert_ok)
                       ELSE UNCHANGED <<coll, nextUuid, wlast>>
                    /\ worker' = [worker EXCEPT
                                    !.inp = Append(@, [kind |-> "obj",
                                                       id |-> Get(req, "id", "")]),
                                    !.out = @ \o worker_reply(req_id, outcome)]
                    /\ obs' = [NoObs EXCEPT !.act = "WorkerRead", !.pid = worker.pid,
                                            !.request = <<req>>, !.response = <<outcome>>]
  /\ UNCHANGED <<mtime, text, manifest, exports, journal, th, server, damaged, watch>>

\* ------------------------------------------------------------- the search
\* the conversations a caller indexes for the searches: documents kkk and k, and kk
SearchConversations ==
  { [id |-> <<"c","3">>, timestamp |-> 1, project |-> <<"p","1">>, cwd |-> None,
     git_branch |-> None,
     messages |-> << [role |-> "user", content |-> <<"k","k","k">>, timestamp |-> 1],
                     [role |-> "assistant", content |-> <<"k">>, timestamp |-> 1] >>],
    [id |-> <<"c","4">>, timestamp |-> 1, project |-> <<"p","2">>, cwd |-> None,
     git_branch |-> None,
     messages |-> << [role |-> "user", content |-> <<"k","k">>, timestamp |-> 1] >>] }

\* the calls of query_unified: its arguments
QueryCalls ==
  { [query_text |-> <<"k">>, n_results |-> 2, collections |-> <<"alpha", "beta">>,
     project_filter |-> None],
    [query_text |-> <<"k">>, n_results |-> DefaultNResults, collections |-> <<"beta", "gamma">>,
     project_filter |-> None],
    [query_text |-> <<"k">>, n_results |-> DefaultNResults, collections |-> <<"alpha", "beta">>,
     project_filter |-> <<"p","1">>],
    [query_text |-> <<" ", "\t">>, n_results |-> DefaultNResults,
     collections |-> <<"alpha", "beta">>, project_filter |-> None],
    [query_text |-> <<"k">>, n_results |-> 0, collections |-> <<"alpha">>,
     project_filter |-> None] }

(* DualSourceKnowledgeDB.query_unified called with the arguments of call;  *)
(* fails are the collections whose query raises.                           *)
QueryUnified(call, fails) ==
  /\ \E aa \in CollectionQuery(coll["alpha"], call.query_text, call.n_results,
                                db_where(call.project_filter)),
        ab \in CollectionQuery(coll["beta"], call.query_text, call.n_results,
                                db_where(call.project_filter)) :
        obs' = [NoObs EXCEPT
                  !.act = "QueryUnified",
                  !.request = << [call |-> call, fails |-> fails] >>,
                  !.response =
                     << query_unified(call.query_text, call.n_results, call.collections,
                                      call.project_filter,
                                      [c \in Collections |-> IF c = "alpha" THEN aa ELSE ab],
                                      fails) >>]
  /\ UNCHANGED <<coll, nextUuid, mtime, text, manifest, exports, journal, th, worker, wlast, server, damaged, watch>>

\* the bodies of POST /search: not JSON ("bad") or a JSON object
SearchBodies ==
  { [kind |-> "bad"],
    [kind |-> "obj", obj |-> [limit |-> 1]],
    [kind |-> "obj", obj |-> [query |-> <<"k">>, limit |-> 1]],
    [kind |-> "obj", obj |-> [query |-> <<"k">>, project |-> <<"p","2">>,
                              collections |-> <<"beta">>]],
    [kind |-> "obj", obj |-> [query |-> <<" ">>]] }

(* APIHandler.handle_search, lines 135-168: the status and the JSON body   *)
(* sent, given what query_unified does for the arguments taken from data.  *)
handle_search(body, answers, fails) ==
  IF body.kind # "obj" THEN [status |-> 400, body |-> [error |-> "Invalid JSON"]]
  ELSE LET data == body.obj
           query_text == Get(data, "query", None)
           n_results == Get(data, "n_results", Get(data, "limit", DefaultNResults))
           project_filter == Get(data, "project_filter", Get(data, "project", None))
           collections == Get(data, "collections", <<"alpha", "beta">>)
           result == query_unified(query_text, n_results, collections, project_filter,
                                   answers, fails)
       IN  IF ~Truthy(query_text)
           THEN [status |-> 400, body |-> [error |-> "query parameter required"]]
           ELSE IF result.error # ""
           THEN [status |-> 500, body |-> [error |-> result.error]]
           ELSE [status |-> 200,
                 body |-> [query |-> query_text,
                           results_count |-> Len(Get(result.value[1], "results", <<>>)),
                           results |-> Get(result.value[1], "results", <<>>),
                           search_type |-> Get(result.value[1], "search_type", "unknown")]]

\* one POST /search
HandleSearch(body, fails) ==
  /\ LET data == IF body.kind = "obj" THEN body.obj ELSE NoParams
         query_text == Get(data, "query", None)
         n_results == Get(data, "n_results", Get(data, "limit", DefaultNResults))
         where == db_where(Get(data, "project_filter", Get(data, "project", None)))
     IN  \E aa \in CollectionQuery(coll["alpha"], query_text, n_results, where),
            ab \in CollectionQuery(coll["beta"], query_text, n_results, where) :
            obs' = [NoObs EXCEPT
                      !.act = "HandleSearch",
                      !.request = << [body |-> body, fails |-> fails] >>,
                      !.response =
                         << handle_search(body,
                                          [c \in Collections |-> IF c = "alpha" THEN aa ELSE ab],
                                          fails) >>]
  /\ UNCHANGED <<coll, nextUuid, mtime, text, manifest, exports, journal, th, worker, wlast, server, damaged, watch>>

\* ---------------------------------------------------------- the API process
\* a variant of get_collection_stats that counts what the worker has loaded
get_collection_stats_of_worker(stats_ok) ==
  IF ~stats_ok THEN Raised("RuntimeError")
  ELSE LET count == [c \in Collections |->
                       IF c \in worker.loaded THEN Cardinality(coll[c]) ELSE 0]
       IN  Returned([alpha |-> [count |-> count["alpha"]], beta |-> [count |-> count["beta"]],
                     total |-> [count |-> count["alpha"] + count["beta"]]])

(* get_collection_stats, lines 414-470: Collection.count() of the two      *)
(* collections the parent opened; stats_ok is whether the library calls    *)
(* return.  The lists of sources and projects are left out.                *)
get_collection_stats(stats_ok) ==
  IF ~stats_ok THEN Raised("RuntimeError")
  ELSE LET count == [c \in Collections |-> Cardinality(coll[c])]
       IN  Returned([alpha |-> [count |-> count["alpha"]], beta |-> [count |-> count["beta"]],
                     total |-> [count |-> count["alpha"] + count["beta"]]])

\* handle_ready, lines 199-252: the status and the body sent
handle_ready(db_set, stats) ==
  IF ~db_set THEN [status |-> 503, body |-> [status |-> "UNHEALTHY"]]
  ELSE IF stats.error # "" THEN [status |-> 503, body |-> [status |-> "UNHEALTHY"]]
  ELSE [status |-> 200,
        body |-> [status |-> "OK",
                  collections |-> [alpha |-> stats.value[1].alpha.count,
                                   beta |-> stats.value[1].beta.count,
                                   total |-> stats.value[1].alpha.count
                                               + stats.value[1].beta.count]]]

\* handle_stats, lines 264-271
handle_stats(stats) ==
  IF stats.error # "" THEN [status |-> 500, body |-> [error |-> stats.error]]
  ELSE [status |-> 200, body |-> stats.value[1]]

(* start_api_server, lines 283-292: DualSourceKnowledgeDB() raises         *)
(* RuntimeError when the embedding model or the store cannot be set up     *)
(* (knowledge_db_dual.py, 66-95); nothing catches it and the process ends. *)
(* A process that ended may be started again.                              *)
StartApiServer(init_ok) ==
  /\ server.status # "serving"
  /\ server' = [status |-> IF init_ok THEN "serving" ELSE "exited",
                backend |-> "uninitialized"]
  /\ obs' = [NoObs EXCEPT !.act = "StartApiServer",
                          !.outcome = IF init_ok THEN "ok" ELSE "raised"]
  /\ UNCHANGED <<coll, nextUuid, mtime, text, manifest, exports, journal, th, worker, wlast,
                 damaged, watch>>

\* GET /ready and GET /health
HandleReady(stats_ok) ==
  /\ server.status = "serving"
  /\ obs' = [NoObs EXCEPT !.act = "HandleReady", !.stats_ok = stats_ok,
                          !.response = <<handle_ready(TRUE, get_collection_stats(stats_ok))>>]
  /\ UNCHANGED <<coll, nextUuid, mtime, text, manifest, exports, journal, th, worker, wlast,
                 server, damaged, watch>>

\* GET /stats
HandleStats(stats_ok) ==
  /\ server.status = "serving"
  /\ obs' = [NoObs EXCEPT !.act = "HandleStats", !.stats_ok = stats_ok,
                          !.response = <<handle_stats(get_collection_stats(stats_ok))>>]
  /\ UNCHANGED <<coll, nextUuid, mtime, text, manifest, exports, journal, th, worker, wlast,
                 server, damaged, watch>>

\* ---------------------------------------------- the vector backend supervisor
(* The supervisor that spawns chroma_worker.py is not among the sources;   *)
(* its callers (api_server.py, db.test_search and db.shutdown) and the     *)
(* worker's module docstring are.  It is modelled from section 4.4 of the  *)
(* specification: Uninitialized -> Ready -> Degraded -> Dead.              *)
BackendUp == {"ready", "degraded"}

\* the availability recorded for a child that loaded these collections
backend_of(loaded) == IF loaded = Collections THEN "ready" ELSE "degraded"

\* a variant of backend_after_call that keeps the backend after a second failure
backend_after_call_forgiving(backend, crash, restart_ok, recrash) == backend

(* per-call dispatch: a crash or timeout of the call, then a restart that  *)
(* fails or a retry that crashes again, disables the backend.              *)
backend_after_call(backend, crash, restart_ok, recrash) ==
  IF crash /\ (~restart_ok \/ recrash) THEN "dead" ELSE backend

(* startup: the child is spawned and the ready marker awaited; a child     *)
(* that exits or closes its stream first leaves the backend unavailable    *)
(* and the process running.                                                *)
SupervisorStart(ready_ok) ==
  /\ server.status = "serving"
  /\ server.backend = "uninitialized"
  /\ worker.pid < MaxPid
  /\ worker' = [pid |-> worker.pid + 1, loaded |-> IF ready_ok THEN {"beta"} ELSE {},
                status |-> IF ready_ok THEN "ready" ELSE "crashed",
                out |-> start_output(ready_ok), inp |-> <<>>]
  /\ server' = [server EXCEPT !.backend = IF ready_ok THEN backend_of({"beta"}) ELSE "dead"]
  /\ obs' = [NoObs EXCEPT !.act = "SupervisorStart", !.pid = worker.pid + 1,
                          !.outcome = IF ready_ok THEN "ready" ELSE "unavailable"]
  /\ UNCHANGED <<coll, nextUuid, mtime, text, manifest, exports, journal, th, wlast, damaged, watch>>

(* one ping through the supervisor.  crash: the child dies or the deadline *)
(* passes before the answer; restart_ok: the restarted child sends its     *)
(* ready marker; recrash: the retried call fails as well.  obs.result is   *)
(* the number of times the call was sent.                                  *)
SupervisedCall(crash, restart_ok, recrash) ==
  LET line == [kind |-> "obj", id |-> "__init__"]
      pong == respond_ok("__init__", [str |-> "pong"])
      up == server.backend \in BackendUp
      failed == crash /\ (~restart_ok \/ recrash)
  IN  /\ server.status = "serving"
      /\ server.backend # "uninitialized"
      /\ Len(worker.inp) < MaxLines
      /\ (up /\ crash) => worker.pid < MaxPid
      /\ worker' = IF ~up THEN worker
                   ELSE IF ~crash
                        THEN [worker EXCEPT !.inp = Append(@, line), !.out = Append(@, pong)]
                   ELSE [pid |-> worker.pid + 1,
                         loaded |-> IF restart_ok THEN worker.loaded ELSE {},
                         status |-> IF failed THEN "crashed" ELSE "ready",
                         out |-> start_output(restart_ok)
                                   \o (IF failed THEN <<>> ELSE <<pong>>),
                         inp |-> IF restart_ok THEN <<line>> ELSE <<>>]
      /\ server' = [server EXCEPT
                      !.backend = IF up
                                  THEN backend_after_call(@, crash, restart_ok, recrash)
                                  ELSE @]
      /\ obs' = [NoObs EXCEPT !.act = "SupervisedCall", !.pid = worker.pid,
                              !.request = <<[up |-> up, crash |-> crash,
                                             restart_ok |-> restart_ok,
                                             recrash |-> recrash]>>,
                              !.outcome = IF up /\ ~failed THEN "answered"
                                          ELSE "unavailable",
                              !.result = IF ~up THEN 0
                                         ELSE IF crash /\ restart_ok THEN 2 ELSE 1]
      /\ UNCHANGED <<coll, nextUuid, mtime, text, manifest, exports, journal, th, wlast,
                     damaged, watch>>

\* ---------------------------------------------------------- specifications
(* The manifest cycle: session logs and memory files are written, the      *)
(* alpha collection may be purged, and one thread runs                     *)
(* index_claude_projects_jsonl and index_memory_files.  The clock of a     *)
(* step reads the newest stamp a file carries.                             *)
NextFiles ==
  \/ \E f \in SourceFiles : Touch(f)
  \/ Purge("alpha")
  \/ \E t \in SeqThreads : JsonlStart(t, None)
  \/ \E t \in SeqThreads : \E item \in th[t].files, add_ok \in BOOLEAN :
        JsonlStep(t, item, NewestMtime, add_ok)
  \/ \E t \in SeqThreads, save_ok \in BOOLEAN : JsonlSave(t, save_ok)
  \/ \E t \in SeqThreads : MemoryStart(t)
  \/ \E t \in SeqThreads : \E item \in th[t].files, add_ok \in BOOLEAN :
        MemoryStep(t, item, add_ok)
  \/ \E t \in SeqThreads, save_ok \in BOOLEAN : MemorySave(t, save_ok)

Spec == Init /\ [][NextFiles]_vars

(* The journal cycle: archives appear, the beta collection may be purged,  *)
(* and one thread runs index_anthropic_export.                             *)
NextExport ==
  \/ \E a \in ArchiveNames : DropExport(a)
  \/ Purge("beta")
  \/ \E t \in SeqThreads, stats_ok \in BOOLEAN : ExportStart(t, stats_ok)
  \/ \E t \in SeqThreads, add_ok \in BOOLEAN : ExportStep(t, add_ok)
  \/ \E t \in SeqThreads, write_ok \in BOOLEAN : ExportFinish(t, write_ok)

SpecExport == Init /\ [][NextExport]_vars

(* Direct ingest: callers pass conversations to _index_conversation.       *)
NextDirect ==
  \/ \E c \in Collections : Purge(c)
  \/ \E t \in SeqThreads, conv \in DirectConversations, c \in Collections, add_ok \in BOOLEAN :
        DirectIndex(t, conv, c, add_ok)

SpecDirect == Init /\ [][NextDirect]_vars

(* The store under both writers: direct ingest in the parent, into either  *)
(* collection, and index requests to one worker process, into beta.        *)
NextStore ==
  \/ \E t \in SeqThreads, conv \in DirectConversations, c \in Collections, add_ok \in BOOLEAN :
        DirectIndex(t, conv, c, add_ok)
  \/ worker.pid = 0 /\ WorkerStart(TRUE)
  \/ \E conv \in WorkerConversations, now \in Times, upsert_ok \in BOOLEAN :
        WorkerIndex(conv, "beta", now, upsert_ok)

SpecStore == Init /\ [][NextStore]_vars

(* The worker alone: processes start and answer index requests.            *)
NextWorker ==
  \/ \E beta_ok \in BOOLEAN : WorkerStart(beta_ok)
  \/ \E conv \in WorkerConversations, c \in Collections, now \in Times, upsert_ok \in BOOLEAN :
        WorkerIndex(conv, c, now, upsert_ok)

SpecWorker == Init /\ [][NextWorker]_vars

(* The worker's protocol: processes start or fail to, and a running one    *)
(* reads the lines the parent sends.                                       *)
NextProto ==
  \/ \E beta_ok \in BOOLEAN : WorkerStart(beta_ok)
  \/ WorkerInitFail
  \/ \E line \in RequestLines, now \in Times, upsert_ok \in BOOLEAN, fails \in SUBSET Collections :
        WorkerRead(line, now, upsert_ok, fails)

SpecProto == Init /\ [][NextProto]_vars

(* Routing: the three ingest pipelines run one after another, in any       *)
(* order, over files that do not change; nothing is purged, the manifest   *)
(* and the journal are written without failure and the stats are read.     *)
NextRoute ==
  \/ \E t \in SeqThreads, project_filter \in {None, FileProject("j1")} :
        JsonlStart(t, project_filter)
  \/ \E t \in SeqThreads : \E item \in th[t].files, add_ok \in BOOLEAN :
        JsonlStep(t, item, NewestMtime, add_ok)
  \/ \E t \in SeqThreads : JsonlSave(t, TRUE)
  \/ \E t \in SeqThreads : MemoryStart(t)
  \/ \E t \in SeqThreads : \E item \in th[t].files, add_ok \in BOOLEAN :
        MemoryStep(t, item, add_ok)
  \/ \E t \in SeqThreads : MemorySave(t, TRUE)
  \/ \E a \in ArchiveNames : DropExport(a)
  \/ \E t \in SeqThreads : ExportStart(t, TRUE)
  \/ \E t \in SeqThreads, add_ok \in BOOLEAN : ExportStep(t, add_ok)
  \/ \E t \in SeqThreads : ExportFinish(t, TRUE)

SpecRoute == Init /\ [][NextRoute]_vars

(* Search: a caller fills the two collections, a conversation at most once *)
(* in each, query_unified is called, directly and through POST /search,    *)
(* and one worker process is sent queries of whitespace.                   *)
NextQuery ==
  \/ \E t \in SeqThreads, conv \in SearchConversations, c \in Collections, add_ok \in BOOLEAN :
        /\ \A d \in coll[c] : d.metadata.conversation_id # conv.id
        /\ DirectIndex(t, conv, c, add_ok)
  \/ \E call \in QueryCalls, fails \in SUBSET Collections : QueryUnified(call, fails)
  \/ \E body \in SearchBodies, fails \in SUBSET Collections : HandleSearch(body, fails)
  \/ worker.pid = 0 /\ WorkerStart(TRUE)
  \/ \E line \in {l \in RequestLines : l.kind = "obj" /\ Get(l.obj, "id", "") = "r4"},
        fails \in SUBSET Collections :
        WorkerRead(line, 1, TRUE, fails)

SpecQuery == Init /\ [][NextQuery]_vars

(* the API process: its start, the readiness and statistics endpoints, the *)
(* supervised vector backend, and a caller that fills the store            *)
NextServe ==
  \/ \E init_ok \in BOOLEAN : StartApiServer(init_ok)
  \/ \E stats_ok \in BOOLEAN : HandleReady(stats_ok)
  \/ \E stats_ok \in BOOLEAN : HandleStats(stats_ok)
  \/ \E ready_ok \in BOOLEAN : SupervisorStart(ready_ok)
  \/ \E crash \in BOOLEAN, restart_ok \in BOOLEAN, recrash \in BOOLEAN :
        SupervisedCall(crash, restart_ok, recrash)
  \/ \E t \in SeqThreads, conv \in SearchConversations, c \in Collections :
        /\ \A d \in coll[c] : d.metadata.conversation_id # conv.id
        /\ DirectIndex(t, conv, c, TRUE)

SpecServe == Init /\ [][NextServe]_vars

(* Damage: the manifest and the journal are overwritten from outside       *)
(* between cycles of the session-log and the export pipelines, whose       *)
(* store and file writes succeed.                                          *)
NextDamage ==
  \/ \E file \in DOMAIN Undamaged, kind \in {"garbage", "null"} :
        (\A t \in SeqThreads : th[t].pc = "idle") /\ Damage(file, kind)
  \/ \E t \in SeqThreads : JsonlStart(t, None)
  \/ \E t \in SeqThreads : \E item \in th[t].files : JsonlStep(t, item, NewestMtime, TRUE)
  \/ \E t \in SeqThreads : JsonlSave(t, TRUE)
  \/ \E a \in ArchiveNames : exports = <<>> /\ DropExport(a)
  \/ \E t \in SeqThreads : ExportStart(t, TRUE)
  \/ \E t \in SeqThreads : ExportStep(t, TRUE)
  \/ \E t \in SeqThreads : ExportFinish(t, TRUE)

SpecDamage == Init /\ [][NextDamage]_vars

(* Two index triggers at once: ThreadingHTTPServer runs each request on a  *)
(* thread of its own, and handle_index_trigger gives each a new             *)
(* ConversationIndexer whose cycles take no lock.  Manifest writes         *)
(* succeed and the files do not change.                                    *)
NextConcurrent ==
  \/ \E t \in AllThreads : JsonlStart(t, None)
  \/ \E t \in AllThreads : \E item \in th[t].files, add_ok \in BOOLEAN :
        JsonlStep(t, item, NewestMtime, add_ok)
  \/ \E t \in AllThreads : JsonlSave(t, TRUE)
  \/ \E t \in AllThreads : MemoryStart(t)
  \/ \E t \in AllThreads : \E item \in th[t].files : MemoryStep(t, item, TRUE)
  \/ \E t \in AllThreads : MemorySave(t, TRUE)

SpecConcurrent == Init /\ [][NextConcurrent]_vars

\* ------------------------------------------------- parse_jsonl_file alone
MaxEvents == 3
MaxConversations == 2

(* the values conversations.json may list: a conversation whose two        *)
(* messages share an id; one that repeats that id, has a message of a      *)
(* system sender and one without id; null; one whose chat_messages is a    *)
(* number; one without chat_messages; one with a message that is a string, *)
(* a message whose text is in content blocks and a blank message           *)
WebConversations ==
  { [kind |-> "obj",
     obj |-> [uuid |-> <<"w","1">>,
              chat_messages |-> [list |-> <<
                [kind |-> "obj", obj |-> [uuid |-> <<"m","1">>, sender |-> "human",
                                          text |-> <<"q">>,
                                          created_at |-> [ok |-> TRUE, t |-> 1]]],
                [kind |-> "obj", obj |-> [uuid |-> <<"m","1">>, sender |-> "assistant",
                                          text |-> <<"r">>,
                                          created_at |-> [ok |-> TRUE, t |-> 2]]] >>]]],
    [kind |-> "obj",
     obj |-> [uuid |-> <<"w","2">>,
              chat_messages |-> [list |-> <<
                [kind |-> "obj", obj |-> [uuid |-> <<"m","1">>, sender |-> "AI",
                                          text |-> <<"a">>]],
                [kind |-> "obj", obj |-> [uuid |-> <<"m","2">>, sender |-> "system",
                                          text |-> <<"s">>]],
                [kind |-> "obj", obj |-> [sender |-> "User", text |-> <<"u">>]] >>]]],
    [kind |-> "null"],
    [kind |-> "obj", obj |-> [uuid |-> <<"w","4">>, chat_messages |-> [num |-> 5]]],
    [kind |-> "obj", obj |-> [uuid |-> <<"w","5">>]],
    [kind |-> "obj",
     obj |-> [chat_messages |-> [list |-> <<
                [kind |-> "str"],
                [kind |-> "obj", obj |-> [uuid |-> <<"m","3">>, sender |-> "Assistant",
                                          content |-> << [type |-> "text", text |-> <<"x">>],
                                                         [type |-> "tool_use"],
                                                         [text |-> <<"y">>] >>]],
                [kind |-> "obj", obj |-> [uuid |-> <<"m","4">>, sender |-> "user",
                                          text |-> <<" ">>]] >>]]] }

(* the lines a session log is made of here: a user event with session id,  *)
(* cwd and branch; a line that is not JSON; a system event with a session  *)
(* id; a user event with none of them; a user event with a session id and  *)
(* empty content; an assistant event with another session id and cwd; a    *)
(* system event with content                                               *)
ParseEvents ==
  { LinesFull[1], LinesBare[1], LinesBare[2], LinesBare[3], LinesNone[3],
    [kind |-> "obj",
     obj |-> [type |-> "assistant", sessionId |-> <<"s","2">>, cwd |-> <<"/","v">>,
              gitBranch |-> <<"d">>, message |-> [content |-> [str |-> <<"o","k">>]],
              timestamp |-> [ok |-> TRUE, t |-> 2]]],
    [kind |-> "obj",
     obj |-> [type |-> "system", message |-> [content |-> [str |-> <<"s","y","s">>]]]] }

(* a session log of at most MaxEvents lines, or an export archive whose     *)
(* conversations.json lists at most MaxConversations values, is on disk;   *)
(* nothing else has happened                                               *)
InitParse ==
  /\ coll = [c \in Collections |-> {}]
  /\ nextUuid = 0
  /\ mtime = [f \in SourceFiles |-> 1]
  /\ text = InitText
  /\ manifest = EmptyManifest
  /\ exports = <<>>
  /\ journal = NoJournal
  /\ th = [t \in AllThreads |-> IdleThread]
  /\ worker = NoWorker
  /\ server = NoServer
  /\ damaged = Undamaged
  /\ \/ \E n \in 0..MaxEvents : \E lines \in [1..n -> ParseEvents] :
           obs = [NoObs EXCEPT !.request = <<lines>>, !.target = "jsonl"]
     \/ \E n \in 0..MaxConversations : \E convs \in [1..n -> WebConversations] :
           obs = [NoObs EXCEPT !.request = <<convs>>, !.target = "zip"]
  /\ wlast = [conv |-> <<>>, target |-> "", pid |-> 0, ids |-> {}]
  /\ watch = [pending |-> FALSE, since |-> DebounceTicks, flip |-> 0, seen |-> 0,
              pc |-> "loop", opc |-> "idle"]

\* parse_jsonl_file on the log, named as the file j1, at the time now
ParseJsonl(now) ==
  /\ obs.act = "" /\ obs.target = "jsonl"
  /\ obs' = [obs EXCEPT !.act = "ParseJsonl", !.file = "j1", !.result = now,
                        !.response = parse_jsonl_file(FileProject("j1"), FileStem("j1"),
                                                      obs.request[1], now)]
  /\ UNCHANGED <<coll, nextUuid, mtime, text, manifest, exports, journal, th, worker, wlast,
                 server, damaged, watch>>

\* ClaudeWebParser().parse_zip on the archive: its messages, or what it raised
ParseZip ==
  /\ obs.act = "" /\ obs.target = "zip"
  /\ obs' = [obs EXCEPT !.act = "ParseZip",
                        !.response =
                           <<parse_zip(obs.request[1],
                                       [error |-> "", messages |-> <<>>, seen |-> {},
                                        metrics |-> [total_conversations |-> Len(obs.request[1]),
                                                     total_messages |-> 0,
                                                     failed_conversations |-> 0,
                                                     schema_errors |-> 0]])>>]
  /\ UNCHANGED <<coll, nextUuid, mtime, text, manifest, exports, journal, th, worker, wlast,
                 server, damaged, watch>>

NextParse ==
  \/ \E now \in 0..MaxNow : ParseJsonl(now)
  \/ ParseZip

SpecParse == InitParse /\ [][NextParse]_vars

\* ------------------------------------------------------- daemon/watcher.py
\* The time since _last_modified_time is counted in sleeps of the main loop
\* (main.py:256, half a second each) and no further than the debounce:
\* watch.since = DebounceTicks reads "debounce_seconds or longer ago", which
\* is also how the initial _last_modified_time = 0.0 compares.

\* _on_file_modified without its line 64: the time is recorded, the flag is not raised
OnFileModifiedStampOnly ==
  /\ \/ /\ watch.opc = "idle"
        /\ watch' = [watch EXCEPT !.since = 0, !.opc = "stamped", !.flip = 1 - @]
     \/ /\ watch.opc = "stamped"
        /\ watch' = [watch EXCEPT !.opc = "idle"]
  /\ obs' = [NoObs EXCEPT !.act = "OnFileModified", !.outcome = watch'.opc]
  /\ UNCHANGED <<coll, nextUuid, mtime, text, manifest, exports, journal, th, worker, server,
                 damaged, wlast>>

\* _on_file_modified, on the observer thread, one event at a time: line 63
\* records the time of the event, line 64 raises the flag, and the main thread
\* may run between the two. watch.flip tells an event from the one before it.
OnFileModified ==
  /\ \/ /\ watch.opc = "idle"
        /\ watch' = [watch EXCEPT !.since = 0, !.opc = "stamped", !.flip = 1 - @]
     \/ /\ watch.opc = "stamped"
        /\ watch' = [watch EXCEPT !.pending = TRUE, !.opc = "idle"]
  /\ obs' = [NoObs EXCEPT !.act = "OnFileModified", !.outcome = watch'.opc]
  /\ UNCHANGED <<coll, nextUuid, mtime, text, manifest, exports, journal, th, worker, server,
                 damaged, wlast>>

\* One turn of the main loop (main.py:251-256) in the steps between which the
\* observer thread may run: check_debounce reads the flag and the two times
\* and compares (lines 74-80); it lowers the flag and calls the callback
\* (lines 82-84); the callback returns (lines 84-86). The turn ends with the
\* loop's sleep. The callback takes no time or one more sleep's worth, and ends
\* by returning or by an exception that line 85 catches. watch.seen is the event
\* that was the latest when the last callback started.
CheckDebounce ==
  /\ \/ /\ watch.pc = "loop"
        /\ IF watch.pending /\ watch.since >= DebounceTicks
             THEN watch' = [watch EXCEPT !.pc = "due"]
             ELSE watch' = [watch EXCEPT !.since = Min(@ + 1, DebounceTicks)]
        /\ obs' = [NoObs EXCEPT !.act = "CheckDebounce", !.found = (watch'.pc = "due")]
     \/ /\ watch.pc = "due"
        /\ watch' = [watch EXCEPT !.pending = FALSE, !.pc = "callback", !.seen = watch.flip]
        /\ obs' = [NoObs EXCEPT !.act = "Callback"]
     \/ /\ watch.pc = "callback"
        /\ \E took \in 0..1, raised \in BOOLEAN :
              /\ watch' = [watch EXCEPT !.pc = "loop",
                                        !.since = Min(@ + took + 1, DebounceTicks)]
              /\ obs' = [NoObs EXCEPT !.act = "CallbackReturned",
                                      !.outcome = IF raised THEN "Exception" ELSE ""]
  /\ UNCHANGED <<coll, nextUuid, mtime, text, manifest, exports, journal, th, worker, server,
                 damaged, wlast>>

NextWatch ==
  \/ OnFileModified
  \/ CheckDebounce

\* the main loop keeps turning, and the observer thread finishes the handler
\* it has entered; nothing obliges the watched file to be modified
SpecWatch ==
  /\ Init /\ [][NextWatch]_vars
  /\ WF_vars(CheckDebounce)
  /\ WF_vars(watch.opc = "stamped" /\ OnFileModified)

\* ------------------------------------------------------------ properties
\* whether a message content is empty or whitespace only
Blank(content) == \A i \in 1..Len(content) : content[i] \in Whitespace

\* the files of a set that the manifest on disk does not cover at their current mtime
Uncovered(files) == {f \in files : f \notin DOMAIN manifest \/ mtime[f] > manifest[f]}

(* C1: ingesting the same conversation into the same collection a second   *)
(* time, right after a first ingest that returned, leaves the collection's *)
(* count and its set of document ids as the first ingest left them.        *)
C1_SecondIngestChangesNothing ==
  [][(obs'.act = "DirectIndex" /\ obs'.repeat = "same")
        => /\ Ids(coll'[obs'.target]) = Ids(coll[obs'.target])
           /\ Cardinality(coll'[obs'.target]) = Cardinality(coll[obs'.target])]_vars

(* C2: in the worker's index handler a document id is a function of the    *)
(* conversation id, the position of the message and the first IdPrefixLen  *)
(* characters of its content only: ids computed for the same triple by     *)
(* this request and by the last stored one are equal, in whatever process, *)
(* and a request repeating the last stored one, for a conversation with an *)
(* id, adds no document.                                                   *)
C2_WorkerIdsDeterministic ==
  [][(obs'.act = "WorkerIndex" /\ obs'.outcome = "ok")
        => /\ \A a \in wlast.ids : \A b \in wlast'.ids :
                 (a.cid = b.cid /\ a.idx = b.idx /\ a.prefix = b.prefix) => a.id = b.id
           /\ (obs'.repeat # "" /\ "id" \in DOMAIN obs'.conv[1])
                 => /\ Ids(coll'[wlast'.target]) = Ids(coll[wlast'.target])
                    /\ Cardinality(coll'[wlast'.target]) = Cardinality(coll[wlast'.target])]_vars

\* a second worker process has just stored again the request the first one stored
C2_Witness ==
  /\ obs.act = "WorkerIndex" /\ obs.outcome = "ok" /\ obs.repeat = "other"
  /\ "id" \in DOMAIN obs.conv[1]
  /\ Len(obs.conv[1].messages[1].content) > IdPrefixLen

(* C3: a cycle of index_claude_projects_jsonl or index_memory_files lists  *)
(* for decoding exactly the candidate files absent from the manifest or of *)
(* an mtime strictly greater than the stored one, decodes only listed      *)
(* files, each once, and ends only when none is left: a file whose mtime   *)
(* has not grown since its commit is not decoded.                          *)
C3_DecodedIffEligible ==
  [][/\ obs'.act = "JsonlStart"
          => th'[obs'.t].files = {<<f, mtime[f]>> : f \in Uncovered(JsonlFiles)}
     /\ obs'.act = "MemoryStart"
          => th'[obs'.t].files = {<<f, mtime[f]>> : f \in Uncovered(MemFiles)}
     /\ obs'.act \in {"JsonlStep", "MemoryStep"}
          => \E item \in th[obs'.t].files :
                /\ item[1] = obs'.file
                /\ th'[obs'.t].files = th[obs'.t].files \ {item}
     /\ obs'.act \in {"JsonlSave", "MemorySave"} => th[obs'.t].files = {}]_vars

\* a cycle has started that skips a committed file and lists a rewritten one
C3_Witness ==
  /\ obs.act = "JsonlStart"
  /\ \E f \in JsonlFiles, g \in JsonlFiles :
        /\ f \in DOMAIN manifest /\ manifest[f] = mtime[f]
        /\ <<f, mtime[f]>> \notin th[obs.t].files
        /\ g \in DOMAIN manifest /\ mtime[g] > manifest[g]
        /\ <<g, mtime[g]>> \in th[obs.t].files

(* C4: a cycle sets the manifest entry of a file only in the step whose    *)
(* ingest of that file returned, with the file's non-blank messages in the *)
(* alpha collection; a file whose decoder returned nothing or whose ingest *)
(* raised leaves the cycle's manifest as it was; and the manifest on disk  *)
(* changes only when a cycle saves its own.                                *)
C4_ManifestAfterUpsert ==
  [][/\ obs'.act \in {"JsonlStep", "MemoryStep"}
          => LET old == th[obs'.t].manifest
                 new == th'[obs'.t].manifest
             IN  /\ obs'.outcome \in {"none", "raised"} => new = old
                 /\ \A f \in DOMAIN new :
                       (f \notin DOMAIN old \/ new[f] # old[f])
                          => /\ f = obs'.file
                             /\ obs'.outcome = "ok"
                             /\ \A i \in 1..Len(obs'.conv[1].messages) :
                                   LET m == obs'.conv[1].messages[i]
                                   IN  ~Blank(m.content)
                                          => \E d \in coll'["alpha"] :
                                                /\ d.document = m.content
                                                /\ d.metadata.conversation_id = obs'.conv[1].id
                 /\ DOMAIN old \subseteq DOMAIN new
     /\ manifest' # manifest
          => /\ obs'.act \in {"JsonlSave", "MemorySave"}
             /\ manifest' = th[obs'.t].manifest]_vars

\* in one cycle a file was committed and the ingest of another raised
C4_Witness ==
  /\ obs.act = "JsonlStep" /\ obs.outcome = "raised"
  /\ obs.file \notin DOMAIN th[obs.t].manifest
  /\ \E g \in JsonlFiles : g \in DOMAIN th[obs.t].manifest /\ g \notin DOMAIN manifest

(* C5: when index_anthropic_export finds an archive and the beta           *)
(* collection is empty, or its count cannot be read, the newest archive is *)
(* parsed and every conversation of it is queued for ingest, the journal's *)
(* hash notwithstanding; each ingest that returns leaves the               *)
(* conversation's messages in beta.                                        *)
C5_EmptyBetaReimports ==
  [][/\ (obs'.act = "ExportStart" /\ exports # <<>>
           /\ (coll["beta"] = {} \/ ~obs'.stats_ok))
          => /\ th'[obs'.t].pc = "export"
             /\ th'[obs'.t].zip = Len(exports)
             /\ RangeOf(th'[obs'.t].convs) =
                   {m.conversation_id : m \in RangeOf(ArchiveMessages(exports[Len(exports)]))}
     /\ (obs'.act = "ExportStep" /\ obs'.outcome = "ok")
          => /\ obs'.conv[1].id = Head(th[obs'.t].convs)
             /\ \A m \in RangeOf(ArchiveMessages(exports[th[obs'.t].zip])) :
                   m.conversation_id = obs'.conv[1].id
                      => \E d \in coll'["beta"] :
                            /\ d.document = m.content
                            /\ d.metadata.conversation_id = m.conversation_id]_vars

(* a conversation was ingested again from an archive that an earlier run  *)
(* ingested and whose hash the journal holds                               *)
C5_Witness ==
  /\ obs.act = "ExportStep" /\ obs.outcome = "ok"
  /\ journal.exists /\ journal.md5 = th[obs.t].md5 /\ journal.conversations > 0
  /\ coll["beta"] # {}

(* C6: when index_anthropic_export finds the journal's hash equal to the   *)
(* newest archive's and reads a beta count above zero, it returns 0 at     *)
(* once: the archive is not parsed, the store and the journal are as they  *)
(* were.                                                                   *)
C6_HashMatchDoesNoWork ==
  [][(obs'.act = "ExportStart" /\ exports # <<>>
        /\ journal.exists /\ journal.md5 = md5_file(exports[Len(exports)])
        /\ obs'.stats_ok /\ coll["beta"] # {})
        => /\ ~obs'.parsed
           /\ obs'.result = 0
           /\ th'[obs'.t] = IdleThread
           /\ coll' = coll
           /\ nextUuid' = nextUuid
           /\ journal' = journal]_vars

\* a run has just returned on a hash match over a beta collection that holds documents
C6_Witness ==
  /\ obs.act = "ExportStart" /\ obs.found /\ obs.md5_match /\ obs.stats_ok
  /\ coll["beta"] # {} /\ ~obs.parsed
  /\ th[obs.t] = IdleThread

(* C7: index_anthropic_export writes the journal only when every ingest of *)
(* the run returned: a run in which the ingest of some conversation raised *)
(* leaves the journal as it was.                                           *)
C7_JournalAfterUpserts ==
  [][(obs'.act = "ExportFinish"
        /\ obs'.result < Cardinality({m.conversation_id :
                            m \in RangeOf(ArchiveMessages(exports[th[obs'.t].zip]))}))
        => journal' = journal]_vars

C9_NoBlankDocument ==
  \A c \in Collections : \A d \in coll[c] :
     /\ d.document # None
     /\ d.document # <<>>
     /\ ~Blank(d.document)

(* both writers have stored a conversation that has a blank message: the   *)
(* worker just now, index_conversation before                              *)
C9_Witness ==
  /\ obs.act = "WorkerIndex" /\ obs.outcome = "ok"
  /\ \E i \in 1..Len(obs.conv[1].messages) : Blank(obs.conv[1].messages[i].content)
  /\ \E d \in coll["beta"] : d.metadata.conversation_id = obs.conv[1].id
  /\ \E c \in Collections : \E d \in coll[c] : d.metadata.conversation_id = <<"s","1">>

(* C10: every stored document's metadata holds conversation_id, role,      *)
(* timestamp, source, project, cwd and git_branch, and project, cwd and    *)
(* git_branch are never null.                                              *)
C10_MetadataNeverNull ==
  \A c \in Collections : \A d \in coll[c] :
     /\ {"conversation_id", "role", "timestamp", "source",
         "project", "cwd", "git_branch"} \subseteq DOMAIN d.metadata
     /\ d.metadata.project # None
     /\ d.metadata.cwd # None
     /\ d.metadata.git_branch # None

\* whether a line of the worker's output is the ready marker
IsReadyMarker(line) ==
  /\ line.id = "__init__"
  /\ "result" \in DOMAIN line
  /\ "str" \in DOMAIN line.result
  /\ line.result.str = "ready"

(* C12: a worker process whose initialisation succeeded has the ready      *)
(* marker as its first output line, written before any request was read,   *)
(* and nowhere else in its output; a process whose initialisation failed   *)
(* has written nothing and read nothing.                                   *)
C12_ReadyMarkerOnceAndFirst ==
  /\ worker.status \in {"ready", "crashed"}
        => /\ worker.out # <<>>
           /\ IsReadyMarker(worker.out[1])
           /\ \A i \in 2..Len(worker.out) : ~IsReadyMarker(worker.out[i])
  /\ worker.status \in {"none", "failed"} => (worker.out = <<>> /\ worker.inp = <<>>)
  /\ (obs.act = "WorkerStart" /\ worker.status = "ready")
        => (worker.out = <<ReadyMarker>> /\ worker.inp = <<>>)

(* the second worker process of the run is ready, has skipped a blank line *)
(* and has answered a ping that carries the marker's id                    *)
C12_Witness ==
  /\ worker.pid = 2 /\ worker.status = "ready"
  /\ Len(worker.out) = 2
  /\ worker.out[2].id = "__init__"
  /\ \E i \in 1..Len(worker.inp) : worker.inp[i].kind = "blank"

\* the JSON objects among the lines the process read
ObjectsRead == SelectSeq(worker.inp, LAMBDA l : l.kind = "obj")

(* C13: the output of a worker process after the ready marker holds        *)
(* exactly one line per JSON object read, in reading order, each carrying  *)
(* the id of its request and either a result or an error, never both; the  *)
(* line is there before the next line is read.                             *)
C13_OneResponsePerRequest ==
  worker.status \in {"ready", "crashed"}
     => /\ Len(worker.out) = 1 + Len(ObjectsRead)
        /\ \A i \in 1..Len(ObjectsRead) :
              LET line == worker.out[i + 1]
              IN  /\ ObjectsRead[i].id # "" => line.id = ObjectsRead[i].id
                  /\ ("result" \in DOMAIN line) # ("error" \in DOMAIN line)

\* a process answered one request with a result and the next with an error
C13_Witness ==
  /\ worker.status = "ready"
  /\ Len(worker.out) = 3
  /\ "result" \in DOMAIN worker.out[2]
  /\ "error" \in DOMAIN worker.out[3]
  /\ worker.out[2].id # worker.out[3].id

\* whether a conversation holds a message that index_conversation stores
HasContent(conv_dict) ==
  \E i \in 1..Len(Get(conv_dict, "messages", <<>>)) :
     LET content == Get(conv_dict.messages[i], "content", <<>>)
     IN  content # None /\ ~Blank(content)

(* C11: every step writes at most one collection and takes nothing out of  *)
(* either; an index call that returns for a conversation with content      *)
(* writes exactly one; a session-log or memory step writes alpha only, a   *)
(* web-export step beta only; and no document written has the id of a      *)
(* document of the other collection.                                       *)
C11_OneCollectionPerIndex ==
  [][LET changed == {c \in Collections : coll'[c] # coll[c]}
     IN  /\ Cardinality(changed) <= 1
         /\ \A c \in Collections : coll[c] \subseteq coll'[c]
         /\ obs'.act \in {"JsonlStep", "MemoryStep"} => changed \subseteq {"alpha"}
         /\ obs'.act = "ExportStep" => changed \subseteq {"beta"}
         /\ (/\ obs'.act \in {"JsonlStep", "MemoryStep", "ExportStep"}
             /\ obs'.outcome = "ok" /\ HasContent(obs'.conv[1]))
               => changed = {obs'.target}
         /\ \A c \in changed : \A other \in Collections \ {c} :
               Ids(coll'[c] \ coll[c]) \cap Ids(coll[other]) = {}]_vars

(* a web-export step has just stored its conversation in beta while alpha  *)
(* holds what a session-log cycle stored and the manifest records it       *)
C11_Witness ==
  /\ obs.act = "ExportStep" /\ obs.outcome = "ok"
  /\ \E d \in coll["beta"] : d.metadata.conversation_id = obs.conv[1].id
  /\ \A d \in coll["beta"] : d.metadata.conversation_id = obs.conv[1].id
  /\ coll["alpha"] # {}
  /\ \A d \in coll["alpha"] : d.metadata.conversation_id # obs.conv[1].id
  /\ manifest # EmptyManifest

\* the documents of a collection that a where filter admits
Admitted(c, where) == {d \in coll[c] : WhereAdmits(where, d)}

\* how many entries the collections queried contribute, each at most n_results
RECURSIVE MergedCount(_, _, _, _)
MergedCount(col_names, queried, where, n_results) ==
  IF col_names = <<>> THEN 0
  ELSE (IF Head(col_names) \in queried
        THEN Min(n_results, Cardinality(Admitted(Head(col_names), where))) ELSE 0)
       + MergedCount(Tail(col_names), queried, where, n_results)

(* whether a result dict answers the query (query_text, n_results, where)  *)
(* over the collections of col_names that are in queried: at most          *)
(* n_results entries, each a stored document with its distance, in         *)
(* ascending distance, no nearer document left out when entries were cut,  *)
(* and total_matches the number of entries merged before the cut           *)
AnswersQuery(r, query_text, n_results, col_names, queried, where) ==
  LET asked == RangeOf(col_names) \cap queried
  IN  /\ Len(r.results) <= n_results
      /\ \A i \in 1..Len(r.results) : \A j \in 1..Len(r.results) :
            i < j => r.results[i].distance <= r.results[j].distance
      /\ \A i \in 1..Len(r.results) :
            /\ r.results[i].collection \in asked
            /\ \E d \in Admitted(r.results[i].collection, where) :
                  /\ d.id = r.results[i].id /\ d.document = r.results[i].document
                  /\ d.metadata = r.results[i].metadata
                  /\ r.results[i].distance = Distance(query_text, d.document)
      /\ r.total_matches = MergedCount(col_names, queried, where, n_results)
      /\ Len(r.results) = Min(n_results, r.total_matches)
      /\ \A c \in asked : \A d \in Admitted(c, where) :
            (\A i \in 1..Len(r.results) : r.results[i].id # d.id)
               => \A i \in 1..Len(r.results) :
                     r.results[i].distance <= Distance(query_text, d.document)

\* the last step was the worker answering a query request with a result
WorkerAnsweredQuery ==
  /\ obs.act = "WorkerRead" /\ obs.request # <<>>
  /\ Get(obs.request[1], "method", "") = "query"
  /\ obs.response[1].error = ""

(* C14: a result the worker gives for a query holds at most n_results      *)
(* entries in ascending distance, merged from the collections queried, and *)
(* its total_matches is the number of entries merged before the cut.       *)
C14_WorkerResultsSortedAndCut ==
  WorkerAnsweredQuery
     => LET params == obs.request[1].params
        IN  AnswersQuery(obs.response[1].value[1].obj, params.query_text,
                         Get(params, "n_results", DefaultNResults),
                         Get(params, "collections", <<"beta">>),
                         worker.loaded, worker_where(params))

\* the worker cut two merged entries to the one asked for
C14_Witness ==
  /\ WorkerAnsweredQuery
  /\ Len(obs.response[1].value[1].obj.results) = 1
  /\ obs.response[1].value[1].obj.total_matches = 2
  /\ Cardinality(coll["beta"]) = 2

(* C15: a query that names a collection the process did not load is not    *)
(* rejected for it: it fails only as the same query without that name      *)
(* would, succeeds when it names no loaded collection at all, and every    *)
(* entry of its result comes from a collection both named and loaded.      *)
C15_UnloadedCollectionSkipped ==
  (/\ obs.act = "WorkerRead" /\ obs.request # <<>>
   /\ Get(obs.request[1], "method", "") = "query"
   /\ RangeOf(Get(obs.request[1].params, "collections", <<"beta">>)) \ worker.loaded # {})
     => LET params == obs.request[1].params
            named == RangeOf(Get(params, "collections", <<"beta">>))
            out == obs.response[1]
        IN  /\ out.error \in {"", "query failed", "query_text cannot be empty"}
            /\ out.error = "query_text cannot be empty" <=> Blank(params.query_text)
            /\ named \cap worker.loaded = {} /\ ~Blank(params.query_text)
                  => (out.error = "" /\ out.value[1].obj.results = <<>>)
            /\ out.error = ""
                  => \A i \in 1..Len(out.value[1].obj.results) :
                        out.value[1].obj.results[i].collection \in named \cap worker.loaded

(* a query naming alpha and beta was answered from beta alone while alpha, *)
(* which the process did not load, holds a document that the filter admits *)
C15_Witness ==
  /\ WorkerAnsweredQuery
  /\ "alpha" \in RangeOf(Get(obs.request[1].params, "collections", <<"beta">>))
  /\ worker.loaded = {"beta"}
  /\ Admitted("alpha", worker_where(obs.request[1].params)) # {}
  /\ obs.response[1].value[1].obj.results # <<>>

(* C16: query_unified and the worker's query handler reject a query text   *)
(* that is empty or whitespace with the empty-query error, whichever       *)
(* collections would fail if they were queried, and the step changes       *)
(* nothing of the store, the files, the manifest, the journal or the       *)
(* collections the worker loaded.                                          *)
C16_BlankQueryRejected ==
  [][/\ (obs'.act = "QueryUnified" /\ Blank(obs'.request[1].call.query_text))
          => /\ obs'.response[1] = Raised("ValueError")
             /\ UNCHANGED <<coll, nextUuid, mtime, text, manifest, exports, journal,
                            th, worker, wlast, watch>>
     /\ (/\ obs'.act = "WorkerRead" /\ obs'.request # <<>>
         /\ Get(obs'.request[1], "method", "") = "query"
         /\ Blank(obs'.request[1].params.query_text))
          => /\ obs'.response[1] = Raised("query_text cannot be empty")
             /\ worker'.out = Append(worker.out,
                                     respond_err(obs'.request[1].id,
                                                 "query_text cannot be empty"))
             /\ worker'.loaded = worker.loaded /\ worker'.status = worker.status
             /\ UNCHANGED <<coll, nextUuid, mtime, text, manifest, exports, journal,
                            th, wlast, watch>>]_vars

(* query_unified rejected a whitespace query over two collections that     *)
(* hold documents and would both have failed                               *)
C16_Witness ==
  /\ obs.act = "QueryUnified"
  /\ Blank(obs.request[1].call.query_text)
  /\ obs.request[1].fails = Collections
  /\ obs.response[1].error = "ValueError"
  /\ coll["alpha"] # {} /\ coll["beta"] # {}

(* C17: a call that names a collection other than alpha and beta ends in   *)
(* the validation error, in index_conversation and in query_unified alike. *)
C17_UnknownCollectionRejected ==
  /\ (obs.act = "QueryUnified"
        /\ ~(RangeOf(obs.request[1].call.collections) \subseteq Collections))
       => obs.response[1].error = "ValueError"
  /\ (obs.act = "DirectIndex" /\ obs.target \notin Collections)
       => obs.outcome = "raised"

(* C18: query_unified returns a result whenever one of the collections it  *)
(* queries answers, whether or not another one fails.                      *)
C18_OneAnswerIsEnough ==
  (/\ obs.act = "QueryUnified"
   /\ ~Blank(obs.request[1].call.query_text)
   /\ obs.request[1].call.n_results > 0
   /\ (RangeOf(obs.request[1].call.collections) \cap Collections)
         \ obs.request[1].fails # {})
     => obs.response[1].error = ""

(* C19: a search response sent with success carries a search_type that is  *)
(* fts, vector or hybrid, and so does a result query_unified returns.      *)
C19_SearchTypeTagged ==
  /\ (obs.act = "HandleSearch" /\ obs.response[1].status = 200)
       => obs.response[1].body.search_type \in {"fts", "vector", "hybrid"}
  /\ (obs.act = "QueryUnified" /\ obs.response[1].error = "")
       => Get(obs.response[1].value[1], "search_type", "") \in {"fts", "vector", "hybrid"}

(* C20: a result query_unified returns holds at most n_results entries in  *)
(* ascending distance, merged from the collections asked for, and its      *)
(* total_matches is the number of entries merged before the cut.           *)
C20_UnifiedResultsSortedAndCut ==
  (obs.act = "QueryUnified" /\ obs.response[1].error = "")
     => LET call == obs.request[1].call
        IN  AnswersQuery(obs.response[1].value[1], call.query_text, call.n_results,
                         call.collections, Collections, db_where(call.project_filter))

(* query_unified cut three entries merged from alpha and beta to the two   *)
(* nearest, one of each collection                                         *)
C20_Witness ==
  /\ obs.act = "QueryUnified" /\ obs.response[1].error = ""
  /\ obs.response[1].value[1].total_matches = 3
  /\ Len(obs.response[1].value[1].results) = 2
  /\ obs.response[1].value[1].results[1].collection
        # obs.response[1].value[1].results[2].collection

(* C21: answering the readiness and the statistics endpoints leaves the    *)
(* vector worker as it was, no line sent to it and none read from it, and  *)
(* the counts answered are the numbers of documents the store holds.       *)
C21_StatsNeverAskWorker ==
  [][/\ obs'.act \in {"HandleReady", "HandleStats"} => worker' = worker
     /\ (obs'.act = "HandleReady" /\ obs'.stats_ok)
          => /\ obs'.response[1].status = 200
             /\ \A c \in Collections :
                   obs'.response[1].body.collections[c] = Cardinality(coll[c])
             /\ obs'.response[1].body.collections.total
                   = Cardinality(coll["alpha"]) + Cardinality(coll["beta"])
     /\ (obs'.act = "HandleStats" /\ obs'.stats_ok)
          => /\ obs'.response[1].status = 200
             /\ \A c \in Collections :
                   obs'.response[1].body[c].count = Cardinality(coll[c])
             /\ obs'.response[1].body.total.count
                   = Cardinality(coll["alpha"]) + Cardinality(coll["beta"])]_vars

(* the readiness endpoint answered the counts of both collections while    *)
(* the worker, which never loaded alpha, was disabled                      *)
C21_Witness ==
  /\ obs.act = "HandleReady" /\ obs.response[1].status = 200
  /\ obs.response[1].body.collections.alpha > 0
  /\ obs.response[1].body.collections.beta > 0
  /\ server.backend = "dead" /\ worker.pid > 0

(* C22: a start of the service at which the vector store cannot be         *)
(* initialised leaves the process serving.                                 *)
C22_StartupFailureKeepsService ==
  (obs.act = "StartApiServer" /\ obs.outcome = "raised") => server.status = "serving"

(* C23: a supervised call whose child crashes or times out restarts the    *)
(* child once and sends the call once more; a restart that fails or a      *)
(* retry that fails disables the backend, which then stays disabled with   *)
(* no further child started; the parent serves throughout.                 *)
C23_RestartOnceRetryOnceThenDead ==
  [][/\ server.status = "serving" => server'.status = "serving"
     /\ server.backend = "dead" => (server'.backend = "dead" /\ worker' = worker)
     /\ obs'.act = "SupervisedCall"
          => LET call == obs'.request[1]
             IN  /\ (call.up /\ ~call.crash)
                      => /\ worker'.pid = worker.pid /\ obs'.result = 1
                         /\ obs'.outcome = "answered" /\ server'.backend = server.backend
                 /\ (call.up /\ call.crash)
                      => /\ worker'.pid = worker.pid + 1
                         /\ obs'.result = IF call.restart_ok THEN 2 ELSE 1
                 /\ (call.up /\ call.crash /\ call.restart_ok /\ ~call.recrash)
                      => /\ obs'.outcome = "answered" /\ server'.backend = server.backend
                         /\ worker'.status = "ready"
                 /\ (call.up /\ call.crash /\ (~call.restart_ok \/ call.recrash))
                      => obs'.outcome = "unavailable" /\ server'.backend = "dead"
                 /\ ~call.up => obs'.outcome = "unavailable" /\ obs'.result = 0]_vars

(* a call crashed, the restarted child crashed on the retry, and the       *)
(* backend is disabled under a parent that serves                          *)
C23_Witness ==
  /\ obs.act = "SupervisedCall" /\ obs.request[1].up /\ obs.request[1].crash
  /\ obs.request[1].restart_ok /\ obs.request[1].recrash
  /\ obs.result = 2 /\ server.backend = "dead" /\ server.status = "serving"

(* C24: one iteration of an ingest cycle takes one listed file off the     *)
(* cycle's list, whatever came of it, and no file is listed twice: a file  *)
(* is decoded at most once in a cycle.  An iteration that failed ends      *)
(* neither the cycle nor the visit of the files left, counts nothing and   *)
(* leaves the cycle's manifest as it was, so the file stays eligible for   *)
(* the next cycle; no iteration changes the entry of another file.         *)
C24_FailedFileNotRetriedNotRecorded ==
  [][obs'.act \in {"JsonlStep", "MemoryStep"}
       => LET t == obs'.t
              f == obs'.file
              before == th[t]
              after == th'[t]
          IN  /\ Cardinality({i \in before.files : i[1] = f}) = 1
              /\ after.files = {i \in before.files : i[1] # f}
              /\ after.pc = before.pc
              /\ \A g \in DOMAIN after.manifest \ {f} :
                    g \in DOMAIN before.manifest /\ after.manifest[g] = before.manifest[g]
              /\ obs'.outcome # "ok"
                   => /\ after.manifest = before.manifest
                      /\ after.indexed = before.indexed
                      /\ f \notin DOMAIN after.manifest \/ after.manifest[f] < mtime[f]]_vars

(* a cycle over two session logs: indexing the first failed, the second    *)
(* was indexed and recorded, the first has no entry                        *)
C24_Witness ==
  /\ obs.act = "JsonlStep" /\ obs.outcome = "ok"
  /\ th[obs.t].files = {} /\ th[obs.t].indexed = 1
  /\ DOMAIN th[obs.t].manifest = {obs.file}
  /\ \E g \in JsonlFiles \ {obs.file} : manifest = EmptyManifest /\ mtime[g] > 0

(* C28: the memory cycle's visit of a markdown file that holds text decodes *)
(* it to a conversation of exactly one message, of role assistant, indexes *)
(* it and records the file in the cycle's manifest.                        *)
C28_MemoryFileIndexedAndRecorded ==
  (obs.act = "MemoryStep" /\ Strip(MemText(text[obs.file])) # <<>>)
     => /\ obs.conv # <<>>
        /\ Len(obs.conv[1].messages) = 1
        /\ obs.conv[1].messages[1].role = "assistant"
        /\ obs.outcome = "raised" \/ obs.file \in DOMAIN th[obs.t].manifest

\* the lines of a log that are events of type user or assistant, in line order
Retained(lines) ==
  SelectSeq(lines, LAMBDA l : l.kind = "obj" /\ Get(l.obj, "type", "") \in {"user", "assistant"})

(* C29: the conversation parse_jsonl_file returns has the session id of    *)
(* the first user or assistant event of the file as its id, or the file    *)
(* stem when that event has none, and the cwd and branch of that event.    *)
C29_MetadataFromFirstEvent ==
  (obs.act = "ParseJsonl" /\ obs.response # <<>>)
     => LET first == Retained(obs.request[1])[1].obj
            conversation == obs.response[1]
        IN  /\ conversation.id = IF Truthy(Get(first, "sessionId", None))
                                 THEN first.sessionId ELSE FileStem(obs.file)
            /\ conversation.cwd = Get(first, "cwd", None)
            /\ conversation.git_branch = Get(first, "gitBranch", <<>>)

(* C30: the messages of the conversation parse_jsonl_file returns are, in  *)
(* line order, the user and assistant events of the file that have         *)
(* content, each with the type of its event as role; no other line gives   *)
(* a message, and None is returned when no such event exists.              *)
C30_MessagesAreUserAssistantEventsInOrder ==
  obs.act = "ParseJsonl"
     => LET kept == SelectSeq(Retained(obs.request[1]),
                              LAMBDA l : Truthy(extract_message_content(l.obj)))
        IN  IF kept = <<>> THEN obs.response = <<>>
            ELSE /\ obs.response # <<>>
                 /\ Len(obs.response[1].messages) = Len(kept)
                 /\ \A i \in 1..Len(kept) :
                       /\ obs.response[1].messages[i].role = kept[i].obj.type
                       /\ obs.response[1].messages[i].role \in {"user", "assistant"}
                       /\ obs.response[1].messages[i].content
                             = extract_message_content(kept[i].obj)

(* a log of a user event, a system event with content and an assistant     *)
(* event gave the two messages user, assistant                             *)
C30_Witness ==
  /\ obs.act = "ParseJsonl" /\ obs.response # <<>>
  /\ Len(obs.request[1]) = 3
  /\ obs.request[1][2].kind = "obj"
  /\ Get(obs.request[1][2].obj, "type", "") = "system"
  /\ Truthy(extract_message_content(obs.request[1][2].obj))
  /\ Len(obs.response[1].messages) = 2
  /\ obs.response[1].messages[1].role = "user"
  /\ obs.response[1].messages[2].role = "assistant"

(* C25: a cycle that finds its manifest or its journal file holding        *)
(* anything but the JSON object it expects goes on as one that found no    *)
(* entries: the session-log cycle lists every file, the export cycle       *)
(* parses the archive it found.                                            *)
C25_DamagedFileReadAsEmpty ==
  /\ (obs.act = "JsonlStart" /\ damaged.manifest # "")
       => /\ obs.outcome # "raised"
          /\ {i[1] : i \in th[obs.t].files} = JsonlFiles
  /\ (obs.act = "ExportStart" /\ obs.found /\ damaged.journal # "")
       => obs.outcome # "raised" /\ obs.parsed

(* C26: at most one thread at a time is inside a cycle in which it has     *)
(* written to the store: the write phases of two cycles do not overlap.    *)
C26_WritePhasesNotInterleaved ==
  Cardinality({t \in AllThreads : th[t].pc # "idle" /\ th[t].indexed > 0}) <= 1

(* C27: the alpha collection holds no two documents that differ in their   *)
(* id alone: a message ingested by two cycles is one document.             *)
C27_OneDocumentPerMessage ==
  \A d1, d2 \in coll["alpha"] :
     (d1.document = d2.document /\ d1.metadata = d2.metadata) => d1 = d2

(* C31: every message parse_zip returns has role user or assistant.        *)
C31_WebRolesAreUserOrAssistant ==
  (obs.act = "ParseZip" /\ obs.response[1].error = "")
     => \A i \in 1..Len(obs.response[1].messages) :
           obs.response[1].messages[i].role \in {"user", "assistant"}

\* the messages of an archive that are objects, each with the id of its conversation,
\* in archive order
RECURSIVE WebFlat(_)
WebFlat(convs) ==
  IF convs = <<>> THEN <<>>
  ELSE LET data == Head(convs)
           chat == IF data.kind = "obj"
                   THEN Get(data.obj, "chat_messages", [list |-> <<>>]) ELSE [list |-> <<>>]
           raws == IF "list" \in DOMAIN chat
                   THEN SelectSeq(chat.list, LAMBDA r : r.kind = "obj") ELSE <<>>
       IN  [i \in 1..Len(raws) |->
              web_parse_message(raws[i].obj, Get(data.obj, "uuid", <<"unknown_conv">>), {})]
           \o WebFlat(Tail(convs))

(* C32: the messages parse_zip returns have pairwise different ids, and    *)
(* they are, in archive order, the acceptable messages of the archive      *)
(* that no acceptable message of the same id precedes: the first of an id  *)
(* is kept, and a message is dropped for its id only after one was kept.   *)
C32_FirstOfEachIdentityKept ==
  (obs.act = "ParseZip" /\ obs.response[1].error = "")
     => LET out == obs.response[1].messages
            flat == WebFlat(obs.request[1])
            first == {i \in 1..Len(flat) :
                        /\ flat[i] # <<>>
                        /\ \A j \in 1..(i - 1) :
                              flat[j] = <<>> \/ flat[j][1].id # flat[i][1].id}
        IN  /\ \A i, j \in 1..Len(out) : out[i].id = out[j].id => i = j
            /\ Len(out) = Cardinality(first)
            /\ \A i \in 1..Len(out) :
                  \E k \in first :
                     /\ flat[k][1] = out[i]
                     /\ Cardinality({j \in first : j < k}) = i - 1

(* two conversations of an archive held four acceptable messages of which  *)
(* three had one id; its first bearer and the message of the other id      *)
(* were returned                                                           *)
C32_Witness ==
  /\ obs.act = "ParseZip" /\ obs.response[1].error = ""
  /\ Len(obs.request[1]) = 2
  /\ Len(SelectSeq(WebFlat(obs.request[1]), LAMBDA m : m # <<>>)) = 4
  /\ Len(obs.response[1].messages) = 2
  /\ obs.response[1].messages[1].conversation_id # obs.response[1].messages[2].conversation_id

(* C33: parse_zip returns whatever its archive lists: each conversation    *)
(* that cannot be parsed is counted in failed_conversations and the        *)
(* messages returned are those of the archive without it.  Likewise        *)
(* parse_jsonl_file returns what it returns for the file without its       *)
(* unreadable lines.                                                       *)
C33_UnreadableRecordSkipped ==
  /\ obs.act = "ParseZip"
       => LET convs == obs.request[1]
              Unreadable(c) == c.kind # "obj" \/ Get(Get(c.obj, "chat_messages", [num |-> 0]),
                                                     "num", 0) # 0
              rest == SelectSeq(convs, LAMBDA c : ~Unreadable(c))
          IN  /\ obs.response[1].error = ""
              /\ obs.response[1].metrics.failed_conversations = Len(convs) - Len(rest)
              /\ obs.response[1].messages
                    = parse_zip(rest, [error |-> "", messages |-> <<>>, seen |-> {},
                                       metrics |-> [total_conversations |-> 0,
                                                    total_messages |-> 0,
                                                    failed_conversations |-> 0,
                                                    schema_errors |-> 0]]).messages
  /\ obs.act = "ParseJsonl"
       => obs.response = parse_jsonl_file(FileProject(obs.file), FileStem(obs.file),
                                          SelectSeq(obs.request[1], LAMBDA l : l.kind = "obj"),
                                          obs.result)

(* C34: a session-log cycle started with a project filter lists for       *)
(* decoding only files of the project the filter names.                    *)
C34_FilterRestrictsFiles ==
  (obs.act = "JsonlStart" /\ obs.request[1] # None)
     => \A item \in th[obs.t].files : FileProject(item[1]) = obs.request[1]

(* C35: no document of the beta collection carries the source label of a   *)
(* document of the alpha collection.                                       *)
C35_SourceLabelTellsCollections ==
  \A a \in coll["alpha"], b \in coll["beta"] : a.metadata.source # b.metadata.source

(* C36: once no cycle runs, the manifest on disk has an entry for every    *)
(* session log whose conversation a cycle committed to the alpha           *)
(* collection.                                                             *)
C36_NoManifestEntryLost ==
  (\A t \in AllThreads : th[t].pc = "idle")
     => \A f \in JsonlFiles :
           (\E d \in coll["alpha"] :
               d.metadata.conversation_id
                 = parse_jsonl_file(FileProject(f), FileStem(f), JsonlLines(text[f]), 0)[1].id)
             => f \in DOMAIN manifest

(* C39: reading a request, an index request for a collection the process  *)
(* did not load included, leaves the set of collections the process        *)
(* queries as it was at its start, and no entry of a query result comes    *)
(* from a collection outside that set, whatever the store holds.           *)
C39_IndexNeverLoadsCollection ==
  [][obs'.act = "WorkerRead"
       => /\ worker'.loaded = worker.loaded
          /\ (/\ obs'.request # <<>> /\ Get(obs'.request[1], "method", "") = "query"
              /\ obs'.response[1].error = "")
               => \A i \in 1..Len(obs'.response[1].value[1].obj.results) :
                     obs'.response[1].value[1].obj.results[i].collection \in worker.loaded]_vars

(* a process that had stored a conversation in alpha, which it never       *)
(* loads, answered a query naming alpha with no entry from it              *)
C39_Witness ==
  /\ WorkerAnsweredQuery
  /\ wlast.target = "alpha" /\ wlast.pid = worker.pid /\ coll["alpha"] # {}
  /\ "alpha" \in RangeOf(Get(obs.request[1].params, "collections", <<"beta">>))
  /\ "alpha" \notin worker.loaded
  /\ Admitted("alpha", worker_where(obs.request[1].params)) # {}
  /\ \A i \in 1..Len(obs.response[1].value[1].obj.results) :
        obs.response[1].value[1].obj.results[i].collection # "alpha"

(* C40: a worker process that has read a line, whatever the line, still    *)
(* runs and reads the next.                                                *)
C40_NoLineStopsTheLoop ==
  obs.act = "WorkerRead" => worker.status = "ready"

(* C37: the callback is invoked only while a modification is pending and  *)
(* the most recent recorded modification lies at least the debounce behind. *)
C37_CallbackOnlyAfterQuietPeriod ==
  [][obs'.act = "Callback" => watch.pending /\ watch.since >= DebounceTicks]_vars

====
